---- MODULE Spec2Model ----
(***************************************************************************)
(* Kuhn Poker engine (kuhn_poker/game.py, kuhn_poker/state.py) and the     *)
(* equilibrium table (kuhn_poker/gto_strategy.py) as a state machine.  A   *)
(* caller owns one KuhnPokerGame and one local `state`, and drives the     *)
(* engine the way tests/test_game.py and experiment/tournament.py do:      *)
(* start_new_hand(), then apply_action(state, action) with any of the four *)
(* action strings, get_payoff(state, seat), and GTOStrategy.get_strategy   *)
(* on a key.  A call that raises leaves the caller's local untouched.      *)
(*                                                                         *)
(* Further specifications over the same variables:                         *)
(*   ASpec  the engine with the agents' choose_action (agents/)            *)
(*   TSpec  run_tournament and play_hand (experiment/tournament.py) and    *)
(*          analyze_tournament (experiment/analyzer.py)                    *)
(*   ESpec  the exploitative agent's opponent model and strategy           *)
(*   RSpec  two engines built with seeds in one process                    *)
(*   HSpec  a HumanLikeAgent observing actions and being reset             *)
(*   GSpec  run_tournament with a GTOAgent at both seats                   *)
(***************************************************************************)
EXTENDS Integers, Sequences, FiniteSets, TLC

\* ------------------------------------------------------------------ bounds
\* Number of start_new_hand calls explored.
MaxHands == 2
\* Largest num_hands passed to run_tournament.
MaxNumHands == 2
\* Observations of the opponent facing a bet fed to the opponent model.
MaxObservations == 30
\* Observations of the opponent in other situations fed to the opponent model.
MaxOtherObservations == 1
\* Hands dealt by each of two engines built in one process.
MaxDeals == 2
\* Actions a HumanLikeAgent observes between two resets.
MaxObserved == 22
\* Observations whose action is chosen freely; later ones repeat them in turn.
FreeObservations == 3

\* --------------------------------------------------------- program constants
\* Python's None.
None == [None |-> TRUE]

CARDS == <<"J", "Q", "K">>
CARD_VALUES == [c \in {"J", "Q", "K"} |-> CASE c = "J" -> 1 [] c = "Q" -> 2 [] c = "K" -> 3]
ANTE == 1
BET_SIZE == 1

\* The action strings the engine distinguishes.
Actions == {"CHECK", "BET", "CALL", "FOLD"}
Seats == {0, 1}

VARIABLES
    game_state,   \* KuhnPokerGame.state (self.state)
    state,        \* the caller's local `state` (None before the first hand)
    arg,          \* the GameState object passed to the last apply_action, as it is after the call
    action,       \* the action passed to the last apply_action ("None" if the last call was not apply_action)
    new_state,    \* the value returned by the last call (None if it raised)
    raised,       \* exception raised by the last call: "None" or the exception's type
    hands,        \* number of start_new_hand calls so far
    call,         \* name of the last call made
    payoff,       \* the last call's get_payoff: [seat, value], None for any other call
    info_set,     \* the string passed to the last call if it was get_strategy, else None
    strategy      \* the dict returned by the last call if it was get_strategy, else None

\* run_tournament and play_hand (experiment/tournament.py)
VARIABLES
    pc,            \* where run_tournament stands: "idle" (not called), "for", "while", "done", "raised", "analyzed"
    num_hands,     \* run_tournament's argument num_hands
    hand_num,      \* the for loop's hand_num
    agent_names,   \* <<agent1.name, agent2.name>>
    agents,        \* this hand's dict seat -> agent (1 for agent1, 2 for agent2)
    actions_taken, \* play_hand's actions_taken
    events,        \* the calls play_hand made on the agents and the engine in this hand, in order
    profits,       \* run_tournament's profits, by agent name
    action_counts, \* run_tournament's action_counts, by agent name and action
    log,           \* logger.hands
    stats          \* the dict analyze_tournament returned (None before)

\* the agents (agents/gto_agent.py, agents/human_like_agent.py)
VARIABLES
    choice         \* the last choose_action call on an agent and its outcome (None if there was none)

\* the exploitative agent's opponent model
VARIABLES
    opponent_stats, \* the counters of the opponent model (None while there is no agent)
    min_samples     \* the minimum-sample threshold the model was built with

\* two engines built in one process (kuhn_poker/game.py, __init__ and deal_cards)
VARIABLES
    rng,           \* the random module's generator: None while seeded by the system, else seed and draws made
    games          \* per engine: None before its construction, else its seed and the cards it dealt

\* a HumanLikeAgent fed with the opponent's actions (agents/human_like_agent.py)
VARIABLES
    recent_history, \* HumanLikeAgent.recent_history
    observed        \* the actions observed since construction or the last reset, in order

evars == <<opponent_stats, min_samples>>

rvars == <<rng, games>>

hvars == <<recent_history, observed>>

tvars == <<pc, num_hands, hand_num, agent_names, agents, actions_taken, events,
           profits, action_counts, log, stats>>

vars == <<game_state, state, arg, action, new_state, raised, hands, call, payoff,
          info_set, strategy, tvars, choice, evars, rvars, hvars>>

\* ------------------------------------------------------------------ helpers
Range(s) == {s[i] : i \in 1..Len(s)}

\* Python floor division by a positive divisor (pot is never negative here).
FloorDiv(a, b) == a \div b

\* GameState(cards, betting_history, pot, current_player, is_terminal=False, payoffs=None)
GameState(cards, betting_history, pot, current_player, is_terminal, payoffs) ==
    [cards |-> cards, betting_history |-> betting_history, pot |-> pot,
     current_player |-> current_player, is_terminal |-> is_terminal, payoffs |-> payoffs]

\* deal_cards: every outcome of random.shuffle(deck) followed by {0: deck[0], 1: deck[1]}.
deal_cards ==
    {[p \in Seats |-> CARDS[d[p + 1]]] : d \in Permutations(1..Len(CARDS))}

\* Variant of get_legal_actions that forgets the CHECK-BET shape of "facing a bet".
get_legal_actions_NoCheckBet(s) ==
    LET history == s.betting_history IN
    IF s.is_terminal THEN [raised |-> "None", value |-> <<>>]
    ELSE IF Len(history) = 0 THEN [raised |-> "None", value |-> <<"CHECK", "BET">>]
    ELSE IF Len(history) = 1 /\ history[1] = "CHECK"
        THEN [raised |-> "None", value |-> <<"CHECK", "BET">>]
    ELSE IF Len(history) = 1 /\ history[1] = "BET"
        THEN [raised |-> "None", value |-> <<"CALL", "FOLD">>]
    ELSE [raised |-> "ValueError", value |-> <<>>]

\* Variant of get_legal_actions keyed on the most recent action alone, without
\* the terminal guard.
get_legal_actions_ByLastAction(s) ==
    LET history == s.betting_history IN
    IF Len(history) = 0 THEN [raised |-> "None", value |-> <<"CHECK", "BET">>]
    ELSE IF history[Len(history)] = "CHECK"
        THEN [raised |-> "None", value |-> <<"CHECK", "BET">>]
    ELSE IF history[Len(history)] = "BET"
        THEN [raised |-> "None", value |-> <<"CALL", "FOLD">>]
    ELSE [raised |-> "ValueError", value |-> <<>>]

\* get_legal_actions: a list of actions, or the ValueError of the last branch.
get_legal_actions(s) ==
    LET history == s.betting_history IN
    IF s.is_terminal THEN [raised |-> "None", value |-> <<>>]
    ELSE IF Len(history) = 0 THEN [raised |-> "None", value |-> <<"CHECK", "BET">>]
    ELSE IF Len(history) = 1 /\ history[1] = "CHECK"
        THEN [raised |-> "None", value |-> <<"CHECK", "BET">>]
    ELSE IF (Len(history) = 1 /\ history[1] = "BET")
            \/ (Len(history) = 2 /\ history[2] = "BET")
        THEN [raised |-> "None", value |-> <<"CALL", "FOLD">>]
    ELSE [raised |-> "ValueError", value |-> <<>>]

\* Variant of _get_showdown_winner that compares the card strings themselves
\* ("J" < "K" < "Q") instead of their CARD_VALUES.
_get_showdown_winner_Alphabetical(cards) ==
    LET alpha == [c \in {"J", "Q", "K"} |-> CASE c = "J" -> 1 [] c = "K" -> 2 [] c = "Q" -> 3] IN
    IF alpha[cards[0]] > alpha[cards[1]] THEN 0 ELSE 1

_get_showdown_winner(cards) ==
    IF CARD_VALUES[cards[0]] > CARD_VALUES[cards[1]] THEN 0 ELSE 1

\* Variant of _calculate_fold_payoffs in which the folder loses the pot less one ante.
_calculate_fold_payoffs_WholeBet(folding_player, pot) ==
    LET winning_player == 1 - folding_player IN
    [p \in {winning_player, folding_player} |->
        IF p = folding_player THEN -(pot - ANTE) ELSE pot - ANTE]

\* Variant of _calculate_fold_payoffs that pays the folder.
_calculate_fold_payoffs_FolderWins(folding_player, pot) ==
    LET winning_player == folding_player IN
    [p \in {winning_player, 1 - folding_player} |->
        IF p = winning_player THEN FloorDiv(pot, 2) ELSE -(FloorDiv(pot, 2))]

_calculate_fold_payoffs(folding_player, pot) ==
    LET winning_player == 1 - folding_player IN
    [p \in {winning_player, folding_player} |->
        IF p = folding_player THEN -(FloorDiv(pot, 2)) ELSE FloorDiv(pot, 2)]

\* Variant of _calculate_showdown_payoffs in which the loser only loses the ante.
_calculate_showdown_payoffs_LoserAnte(cards, pot) ==
    LET winner == _get_showdown_winner(cards) IN
    [p \in {winner, 1 - winner} |->
        IF p = winner THEN FloorDiv(pot, 2) ELSE -ANTE]

_calculate_showdown_payoffs(cards, pot) ==
    LET winner == _get_showdown_winner(cards) IN
    [p \in {winner, 1 - winner} |->
        IF p = winner THEN FloorDiv(pot, 2) ELSE -(FloorDiv(pot, 2))]

\* Variant of start_new_hand in which seat 1 acts first.
start_new_hand_SeatOneFirst ==
    {GameState(cards, <<>>, 2 * ANTE, 1, FALSE, None) : cards \in deal_cards}

\* start_new_hand: the states it can return, one per deal.
start_new_hand ==
    {GameState(cards, <<>>, 2 * ANTE, 0, FALSE, None) : cards \in deal_cards}

\* apply_action, line 105: the history after the action (a fresh list).
new_history(s, a) == s.betting_history \o <<a>>

\* Variant of the pot update in which a BET puts in two units.
new_pot_BetTwo(s, a) ==
    IF a = "BET" THEN s.pot + 2 * BET_SIZE
    ELSE IF a = "CALL" THEN s.pot + BET_SIZE
    ELSE s.pot

\* Variant of the pot update in which a CALL puts nothing in.
new_pot_CallFree(s, a) ==
    IF a = "BET" THEN s.pot + BET_SIZE
    ELSE s.pot

\* apply_action, lines 106-115: the pot after the action.
new_pot(s, a) ==
    IF a = "BET" THEN s.pot + BET_SIZE
    ELSE IF a = "CALL" THEN s.pot + BET_SIZE
    ELSE s.pot

\* Variant of new_player that keeps the seat.
new_player_Same(s) == s.current_player

\* apply_action, line 107: the seat that acts next if the hand goes on.
new_player(s) == 1 - s.current_player

\* Variant of the termination test without the CHECK-CHECK branch.
new_is_terminal_NoCheckCheck(s, a) ==
    IF a = "FOLD" THEN TRUE
    ELSE IF a = "CALL" THEN TRUE
    ELSE FALSE

\* Variant of the termination test that ends the hand after any two actions.
new_is_terminal_AnyTwo(s, a) ==
    IF a = "FOLD" THEN TRUE
    ELSE IF Len(new_history(s, a)) = 2 THEN TRUE
    ELSE IF a = "CALL" THEN TRUE
    ELSE FALSE

\* apply_action, lines 108 and 117-131: does the action end the hand.
new_is_terminal(s, a) ==
    IF a = "FOLD" THEN TRUE
    ELSE IF Len(new_history(s, a)) = 2 /\ new_history(s, a) = <<"CHECK", "CHECK">> THEN TRUE
    ELSE IF a = "CALL" THEN TRUE
    ELSE FALSE

\* Variant of the payoff computation without the CALL branch.
new_payoffs_NoCall(s, a) ==
    IF a = "FOLD" THEN _calculate_fold_payoffs(s.current_player, new_pot(s, a))
    ELSE IF Len(new_history(s, a)) = 2 /\ new_history(s, a) = <<"CHECK", "CHECK">>
        THEN _calculate_showdown_payoffs(s.cards, new_pot(s, a))
    ELSE None

\* apply_action, lines 109 and 117-131: the payoffs of the new state.
new_payoffs(s, a) ==
    IF a = "FOLD" THEN _calculate_fold_payoffs(s.current_player, new_pot(s, a))
    ELSE IF Len(new_history(s, a)) = 2 /\ new_history(s, a) = <<"CHECK", "CHECK">>
        THEN _calculate_showdown_payoffs(s.cards, new_pot(s, a))
    ELSE IF a = "CALL" THEN _calculate_showdown_payoffs(s.cards, new_pot(s, a))
    ELSE None

\* apply_action, lines 133-142: the GameState it builds and returns.
apply_action_new_state(s, a) ==
    GameState(s.cards, new_history(s, a), new_pot(s, a),
              IF ~new_is_terminal(s, a) THEN new_player(s) ELSE s.current_player,
              new_is_terminal(s, a), new_payoffs(s, a))

\* Variant of apply_action that appends the action to the argument's own
\* history list instead of building a new list.
apply_action_Append(s, a) ==
    LET legal == get_legal_actions(s) IN
    IF legal.raised # "None" THEN [raised |-> legal.raised, new_state |-> None, state |-> s]
    ELSE IF a \notin Range(legal.value)
        THEN [raised |-> "ValueError", new_state |-> None, state |-> s]
    ELSE [raised |-> "None", new_state |-> apply_action_new_state(s, a),
          state |-> [s EXCEPT !.betting_history = new_history(s, a)]]

\* Variant of apply_action that only checks that some action is legal, not
\* that the given one is.
apply_action_AnyLegal(s, a) ==
    LET legal == get_legal_actions(s) IN
    IF legal.raised # "None" THEN [raised |-> legal.raised, new_state |-> None, state |-> s]
    ELSE IF legal.value = <<>>
        THEN [raised |-> "ValueError", new_state |-> None, state |-> s]
    ELSE [raised |-> "None", new_state |-> apply_action_new_state(s, a), state |-> s]

\* apply_action(state, action): what was raised, what was returned, and the
\* argument object as the call leaves it (the code assigns to none of its
\* fields and builds the new history with `+`, a fresh list).  An exception of
\* get_legal_actions propagates; both are ValueError.
apply_action(s, a) ==
    LET legal == get_legal_actions(s) IN
    IF legal.raised # "None" THEN [raised |-> legal.raised, new_state |-> None, state |-> s]
    ELSE IF a \notin Range(legal.value)
        THEN [raised |-> "ValueError", new_state |-> None, state |-> s]
    ELSE [raised |-> "None", new_state |-> apply_action_new_state(s, a), state |-> s]

\* Variant of get_payoff without the terminal guard: on a state without
\* payoffs the subscript of None is a TypeError.
get_payoff_NoGuard(s, player) ==
    IF s.payoffs = None THEN [raised |-> "TypeError", value |-> None]
    ELSE [raised |-> "None", value |-> s.payoffs[player]]

\* get_payoff(state, player): ValueError before the end of the hand, else
\* state.payoffs[player] (subscripting None would be a TypeError).
get_payoff(s, player) ==
    IF ~s.is_terminal THEN [raised |-> "ValueError", value |-> None]
    ELSE IF s.payoffs = None THEN [raised |-> "TypeError", value |-> None]
    ELSE [raised |-> "None", value |-> s.payoffs[player]]

\* ------------------------------------------------- strings and information sets
\* A Python str is the sequence of its characters.
Str(w) ==
    CASE w = "" -> <<>>
      [] w = "." -> <<".">>
      [] w = "J" -> <<"J">>
      [] w = "Q" -> <<"Q">>
      [] w = "K" -> <<"K">>
      [] w = "X" -> <<"X">>
      [] w = "CHECK" -> <<"C", "H", "E", "C", "K">>
      [] w = "BET" -> <<"B", "E", "T">>
      [] w = "CALL" -> <<"C", "A", "L", "L">>
      [] w = "FOLD" -> <<"F", "O", "L", "D">>
      [] w = "INVALID" -> <<"I", "N", "V", "A", "L", "I", "D">>

\* ''.join(words)
RECURSIVE Join(_)
Join(words) ==
    IF words = <<>> THEN <<>> ELSE Str(Head(words)) \o Join(Tail(words))

\* str.split('.'): the pieces between the dots, at least one piece.
RECURSIVE Split(_)
Split(str) ==
    IF \A i \in 1..Len(str) : str[i] # "." THEN <<str>>
    ELSE LET i == CHOOSE j \in 1..Len(str) :
                    str[j] = "." /\ \A k \in 1..(j - 1) : str[k] # "."
         IN <<SubSeq(str, 1, i - 1)>> \o Split(SubSeq(str, i + 1, Len(str)))

\* GameState.get_betting_string
get_betting_string(s) == Join(s.betting_history)

\* Variant of get_info_set that always writes out the whole history.
get_info_set_RawHistory(s, player) ==
    Str(s.cards[player]) \o Str(".") \o get_betting_string(s)

\* Variant of get_info_set that reads the card of the seat to act.
get_info_set_ActingCard(s, player) ==
    LET card == Str(s.cards[s.current_player])
        history == s.betting_history
    IN  IF history = <<>> THEN card \o Str(".")
        ELSE IF Len(history) = 1
            THEN IF history[1] = "CHECK" THEN card \o Str(".") \o Str("CHECK")
                 ELSE card \o Str(".") \o Str("BET")
        ELSE IF Len(history) = 2 /\ history = <<"CHECK", "CHECK">>
            THEN card \o Str(".") \o Str("CHECK") \o Str("CHECK")
        ELSE IF Len(history) = 2 /\ history = <<"CHECK", "BET">>
            THEN card \o Str(".") \o Str("BET")
        ELSE IF Len(history) = 2 /\ history = <<"BET", "CALL">>
            THEN card \o Str(".") \o Str("BET") \o Str("CALL")
        ELSE IF Len(history) = 2 /\ history = <<"BET", "FOLD">>
            THEN card \o Str(".") \o Str("BET") \o Str("FOLD")
        ELSE card \o Str(".") \o get_betting_string(s)

\* GameState.get_info_set(player): the f-string the code builds in each branch.
get_info_set(s, player) ==
    LET card == Str(s.cards[player])
        history == s.betting_history
    IN  IF history = <<>> THEN card \o Str(".")
        ELSE IF Len(history) = 1
            THEN IF history[1] = "CHECK" THEN card \o Str(".") \o Str("CHECK")
                 ELSE card \o Str(".") \o Str("BET")
        ELSE IF Len(history) = 2 /\ history = <<"CHECK", "CHECK">>
            THEN card \o Str(".") \o Str("CHECK") \o Str("CHECK")
        ELSE IF Len(history) = 2 /\ history = <<"CHECK", "BET">>
            THEN card \o Str(".") \o Str("BET")
        ELSE IF Len(history) = 2 /\ history = <<"BET", "CALL">>
            THEN card \o Str(".") \o Str("BET") \o Str("CALL")
        ELSE IF Len(history) = 2 /\ history = <<"BET", "FOLD">>
            THEN card \o Str(".") \o Str("BET") \o Str("FOLD")
        ELSE card \o Str(".") \o get_betting_string(s)

\* ------------------------------------------------------------ GTOStrategy
\* A probability literal of the source, as an exact fraction.
Prob(n, d) == [num |-> n, den |-> d]

\* A dict of two entries, action -> probability.
Dict2(a1, p1, a2, p2) == [a \in {a1, a2} |-> IF a = a1 THEN p1 ELSE p2]

_get_p1_strategy(card) ==
    IF card = Str("J")
        THEN [raised |-> "None", value |-> Dict2("CHECK", Prob(1, 1), "BET", Prob(0, 1))]
    ELSE IF card = Str("Q")
        THEN [raised |-> "None", value |-> Dict2("CHECK", Prob(1, 1), "BET", Prob(0, 1))]
    ELSE IF card = Str("K")
        THEN [raised |-> "None", value |-> Dict2("CHECK", Prob(0, 1), "BET", Prob(1, 1))]
    ELSE [raised |-> "ValueError", value |-> None]

\* Variant of _get_p2_facing_bet in which the queen folds.
_get_p2_facing_bet_QueenFolds(card) ==
    IF card = Str("J")
        THEN [raised |-> "None", value |-> Dict2("CALL", Prob(0, 1), "FOLD", Prob(1, 1))]
    ELSE IF card = Str("Q")
        THEN [raised |-> "None", value |-> Dict2("CALL", Prob(0, 1), "FOLD", Prob(1, 1))]
    ELSE IF card = Str("K")
        THEN [raised |-> "None", value |-> Dict2("CALL", Prob(1, 1), "FOLD", Prob(0, 1))]
    ELSE [raised |-> "ValueError", value |-> None]

_get_p2_facing_bet(card) ==
    IF card = Str("J")
        THEN [raised |-> "None", value |-> Dict2("CALL", Prob(0, 1), "FOLD", Prob(1, 1))]
    ELSE IF card = Str("Q")
        THEN [raised |-> "None", value |-> Dict2("CALL", Prob(1, 1), "FOLD", Prob(0, 1))]
    ELSE IF card = Str("K")
        THEN [raised |-> "None", value |-> Dict2("CALL", Prob(1, 1), "FOLD", Prob(0, 1))]
    ELSE [raised |-> "ValueError", value |-> None]

\* Variant of _get_p2_after_check in which the jack's two entries are both 2/3.
_get_p2_after_check_TwoThirdsTwice(card) ==
    IF card = Str("J")
        THEN [raised |-> "None", value |-> Dict2("CHECK", Prob(2, 3), "BET", Prob(2, 3))]
    ELSE IF card = Str("Q")
        THEN [raised |-> "None", value |-> Dict2("CHECK", Prob(1, 1), "BET", Prob(0, 1))]
    ELSE IF card = Str("K")
        THEN [raised |-> "None", value |-> Dict2("CHECK", Prob(0, 1), "BET", Prob(1, 1))]
    ELSE [raised |-> "ValueError", value |-> None]

_get_p2_after_check(card) ==
    IF card = Str("J")
        THEN [raised |-> "None", value |-> Dict2("CHECK", Prob(2, 3), "BET", Prob(1, 3))]
    ELSE IF card = Str("Q")
        THEN [raised |-> "None", value |-> Dict2("CHECK", Prob(1, 1), "BET", Prob(0, 1))]
    ELSE IF card = Str("K")
        THEN [raised |-> "None", value |-> Dict2("CHECK", Prob(0, 1), "BET", Prob(1, 1))]
    ELSE [raised |-> "ValueError", value |-> None]

\* Variant of get_strategy whose last branch is a plain else: any other
\* history is read as "after a check".
get_strategy_ElseAfterCheck(k) ==
    LET parts == Split(k) IN
    IF Len(parts) # 2 THEN [raised |-> "ValueError", value |-> None]
    ELSE LET card == parts[1]
             history == parts[2]
         IN  IF history = Str("") THEN _get_p1_strategy(card)
             ELSE IF history = Str("BET") THEN _get_p2_facing_bet(card)
             ELSE _get_p2_after_check(card)

\* GTOStrategy.get_strategy(info_set); unpacking a split of other than two
\* pieces into `card, history` is a ValueError as well.
get_strategy(k) ==
    LET parts == Split(k) IN
    IF Len(parts) # 2 THEN [raised |-> "ValueError", value |-> None]
    ELSE LET card == parts[1]
             history == parts[2]
         IN  IF history = Str("") THEN _get_p1_strategy(card)
             ELSE IF history = Str("BET") THEN _get_p2_facing_bet(card)
             ELSE IF history = Str("CHECK") THEN _get_p2_after_check(card)
             ELSE [raised |-> "ValueError", value |-> None]

\* Keys a caller writes out itself: the nine of the table, keys with a card or
\* a history outside it, and keys without a dot or with two.
CardInputs == {"J", "Q", "K", "X"}
HistoryInputs == {<<>>, <<"BET">>, <<"CHECK">>, <<"INVALID">>, <<"CALL">>, <<"CHECK", "BET">>}
KeyInputs ==
    {Str(c) \o Str(".") \o Join(h) : c \in CardInputs, h \in HistoryInputs}
        \cup {Str("J"), Str("J") \o Str(".") \o Str("BET") \o Str(".") \o Str("BET")}

\* ------------------------------------------------------------ state machine
\* KuhnPokerGame() with no hand dealt yet.
Init ==
    /\ game_state = None
    /\ state = None
    /\ arg = None
    /\ action = "None"
    /\ new_state = None
    /\ raised = "None"
    /\ hands = 0
    /\ call = "__init__"
    /\ payoff = None
    /\ info_set = None
    /\ strategy = None
    /\ pc = "idle"
    /\ num_hands = 0
    /\ hand_num = 0
    /\ agent_names = <<>>
    /\ agents = <<>>
    /\ actions_taken = <<>>
    /\ events = <<>>
    /\ profits = <<>>
    /\ action_counts = <<>>
    /\ log = <<>>
    /\ stats = None
    /\ choice = None
    /\ opponent_stats = None
    /\ min_samples = 0
    /\ rng = None
    /\ games = <<>>
    /\ recent_history = <<>>
    /\ observed = <<>>

\* state = game.start_new_hand()
StartNewHand ==
    /\ hands < MaxHands
    /\ \E s \in start_new_hand :
        /\ game_state' = s
        /\ state' = s
        /\ new_state' = s
    /\ arg' = None
    /\ action' = "None"
    /\ raised' = "None"
    /\ hands' = hands + 1
    /\ call' = "start_new_hand"
    /\ payoff' = None
    /\ info_set' = None
    /\ strategy' = None
    /\ choice' = None
    /\ UNCHANGED <<tvars, evars, rvars, hvars>>

\* state = game.apply_action(state, a); on an exception the assignment does not happen.
ApplyAction(a) ==
    /\ state # None
    /\ LET r == apply_action(state, a) IN
        /\ raised' = r.raised
        /\ new_state' = r.new_state
        /\ arg' = r.state
        /\ state' = IF r.raised = "None" THEN r.new_state ELSE state
    /\ action' = a
    /\ call' = "apply_action"
    /\ payoff' = None
    /\ info_set' = None
    /\ strategy' = None
    /\ choice' = None
    /\ UNCHANGED <<game_state, hands, tvars, evars, rvars, hvars>>

\* game.get_payoff(state, player)
GetPayoff(player) ==
    /\ state # None
    /\ LET r == get_payoff(state, player) IN
        /\ raised' = r.raised
        /\ payoff' = [seat |-> player, value |-> r.value]
    /\ call' = "get_payoff"
    /\ arg' = None
    /\ action' = "None"
    /\ new_state' = None
    /\ info_set' = None
    /\ strategy' = None
    /\ choice' = None
    /\ UNCHANGED <<game_state, state, hands, tvars, evars, rvars, hvars>>

\* GTOStrategy.get_strategy(k), on a key written out by the caller or on the
\* information set of either seat in the current state.
GetStrategy(k) ==
    /\ LET r == get_strategy(k) IN
        /\ raised' = r.raised
        /\ strategy' = r.value
    /\ info_set' = k
    /\ call' = "get_strategy"
    /\ payoff' = None
    /\ arg' = None
    /\ action' = "None"
    /\ new_state' = None
    /\ choice' = None
    /\ UNCHANGED <<game_state, state, hands, tvars, evars, rvars, hvars>>

Next ==
    \/ StartNewHand
    \/ \E a \in Actions : ApplyAction(a)
    \/ \E player \in Seats : GetPayoff(player)
    \/ \E k \in KeyInputs : GetStrategy(k)
    \/ \E player \in Seats : state # None /\ GetStrategy(get_info_set(state, player))

Spec == Init /\ [][Next]_vars

\* ---------------------------------------------------------------- agents
\* The sum of the values of dist over the keys in S, as random-free arithmetic.
RECURSIVE sum_values(_, _)
sum_values(dist, S) ==
    IF S = {} THEN Prob(0, 1)
    ELSE LET a == CHOOSE x \in S : TRUE
             r == sum_values(dist, S \ {a})
         IN  Prob(dist[a].num * r.den + r.num * dist[a].den, dist[a].den * r.den)

\* Variant of GTOAgent.choose_action that samples the keys of the strategy
\* uniformly, whatever their probabilities.
GTOAgent_choose_action_AnyKey(s, legal_actions, player_position) ==
    LET r == get_strategy(get_info_set(s, player_position)) IN
    IF r.raised # "None"
    THEN {[raised |-> r.raised, value |-> "None", fallback |-> FALSE]}
    ELSE {[raised |-> "None", value |-> a, fallback |-> FALSE] : a \in DOMAIN r.value}

\* GTOAgent.choose_action(state, legal_actions, player_position): the outcomes
\* the call can have. random.choices never returns a key of weight zero;
\* random.choice of an empty list raises IndexError.
GTOAgent_choose_action(s, legal_actions, player_position) ==
    LET r == get_strategy(get_info_set(s, player_position)) IN
    IF r.raised # "None"
    THEN {[raised |-> r.raised, value |-> "None", fallback |-> FALSE]}
    ELSE LET legal_strategy == [a \in DOMAIN r.value \cap Range(legal_actions) |-> r.value[a]]
             total_prob == sum_values(legal_strategy, DOMAIN legal_strategy)
         IN  IF DOMAIN legal_strategy = {}
             THEN IF legal_actions = <<>>
                  THEN {[raised |-> "IndexError", value |-> "None", fallback |-> TRUE]}
                  ELSE {[raised |-> "None", value |-> a, fallback |-> TRUE] :
                            a \in Range(legal_actions)}
             ELSE IF total_prob.num = 0
                  THEN {[raised |-> "ZeroDivisionError", value |-> "None", fallback |-> FALSE]}
                  ELSE {[raised |-> "None", value |-> a, fallback |-> FALSE] :
                            a \in {b \in DOMAIN legal_strategy : legal_strategy[b].num # 0}}

\* What the external decision call of HumanLikeAgent can come back with: it
\* raises, its text holds no JSON object, the object does not parse, its
\* 'action' is not a string, or 'action' is the given string ("" when the key
\* is missing).
Reply(kind, a) == [kind |-> kind, action |-> a]
ReplyInputs ==
    {Reply(k, "") : k \in {"raises", "no_json", "bad_json", "not_a_string"}}
        \cup {Reply("json", a) : a \in {"", "CHECK", "BET", "CALL", "FOLD", "bet", "call", "RAISE"}}

\* str.upper() on the replies above.
upper(w) ==
    CASE w = "bet" -> "BET"
      [] w = "call" -> "CALL"
      [] w = "check" -> "CHECK"
      [] w = "fold" -> "FOLD"
      [] OTHER -> w

\* Variant of the reply handling that returns the parsed action unvalidated.
HumanLikeAgent_choose_action_NoValidation(legal_actions, reply) ==
    IF reply.kind = "json"
    THEN [raised |-> "None", value |-> upper(reply.action), fallback |-> FALSE]
    ELSE IF legal_actions = <<>>
    THEN [raised |-> "IndexError", value |-> "None", fallback |-> TRUE]
    ELSE [raised |-> "None", value |-> legal_actions[1], fallback |-> TRUE]

\* HumanLikeAgent._choose_action_with_llm lines 108-165 for one reply of the
\* external call: the upper-cased action if it is in legal_actions, else
\* legal_actions[0] (IndexError on an empty list).
HumanLikeAgent_choose_action(legal_actions, reply) ==
    IF reply.kind = "json" /\ upper(reply.action) \in Range(legal_actions)
    THEN [raised |-> "None", value |-> upper(reply.action), fallback |-> FALSE]
    ELSE IF legal_actions = <<>>
    THEN [raised |-> "IndexError", value |-> "None", fallback |-> TRUE]
    ELSE [raised |-> "None", value |-> legal_actions[1], fallback |-> TRUE]

\* The record kept of a choose_action call.
Choice(agent, position, legal_actions, reply, r) ==
    [agent |-> agent, position |-> position, legal_actions |-> legal_actions,
     reply |-> reply, value |-> r.value, fallback |-> r.fallback]

\* action = gto_agent.choose_action(state, game.get_legal_actions(state), player)
ChooseActionGTO(player) ==
    /\ state # None
    /\ LET legal_actions == get_legal_actions(state).value IN
       \E r \in GTOAgent_choose_action(state, legal_actions, player) :
        /\ choice' = Choice("GTOAgent", player, legal_actions, None, r)
        /\ raised' = r.raised
    /\ info_set' = get_info_set(state, player)
    /\ strategy' = get_strategy(get_info_set(state, player)).value
    /\ call' = "choose_action"
    /\ payoff' = None
    /\ arg' = None
    /\ action' = "None"
    /\ new_state' = None
    /\ UNCHANGED <<game_state, state, hands, tvars, evars, rvars, hvars>>

\* action = human_like_agent.choose_action(state, game.get_legal_actions(state), player)
\* when the external call comes back with reply.
ChooseActionHumanLike(player, reply) ==
    /\ state # None
    /\ LET legal_actions == get_legal_actions(state).value
           r == HumanLikeAgent_choose_action(legal_actions, reply)
       IN  /\ choice' = Choice("HumanLikeAgent", player, legal_actions, reply, r)
           /\ raised' = r.raised
    /\ info_set' = None
    /\ strategy' = None
    /\ call' = "choose_action"
    /\ payoff' = None
    /\ arg' = None
    /\ action' = "None"
    /\ new_state' = None
    /\ UNCHANGED <<game_state, state, hands, tvars, evars, rvars, hvars>>

\* The engine driven by a caller that asks the agents for actions.
ANext ==
    \/ StartNewHand
    \/ \E a \in Actions : ApplyAction(a)
    \/ \E player \in Seats : ChooseActionGTO(player)
    \/ \E player \in Seats, reply \in ReplyInputs : ChooseActionHumanLike(player, reply)

ASpec == Init /\ [][ANext]_vars

\* ---------------------------------------------------- exploitative agent
\* agents/exploitative_agent.py is not part of the sources at hand; this
\* section follows sections 4.3 and 4.4 of the specification, with the names
\* tests/test_agents.py uses for the agent's fields and methods.

\* No engine call and no agent call has been made.
EngineIdle ==
    /\ game_state = None
    /\ state = None
    /\ arg = None
    /\ action = "None"
    /\ new_state = None
    /\ raised = "None"
    /\ hands = 0
    /\ call = "__init__"
    /\ payoff = None
    /\ info_set = None
    /\ strategy = None
    /\ choice = None

\* run_tournament has not been called.
TournamentIdle ==
    /\ pc = "idle"
    /\ num_hands = 0
    /\ hand_num = 0
    /\ agent_names = <<>>
    /\ agents = <<>>
    /\ actions_taken = <<>>
    /\ events = <<>>
    /\ profits = <<>>
    /\ action_counts = <<>>
    /\ log = <<>>
    /\ stats = None

\* Thresholds the opponent model is built with (the default is to lie between 5 and 10).
MinSampleInputs == {5, 10}

\* The neutral prior estimate returns on too few observations.
NeutralPrior == Prob(1, 2)

\* The counters of a new or reset opponent model.
new_opponent_stats == [total_opportunities |-> 0, total_facing_bet |-> 0, fold_to_bet |-> 0]

\* observe: one more opportunity, one more decision facing a bet when the
\* opponent faced one, one more fold when it then folded.
observe(counts, facing_bet, a) ==
    [total_opportunities |-> counts.total_opportunities + 1,
     total_facing_bet |-> counts.total_facing_bet + (IF facing_bet THEN 1 ELSE 0),
     fold_to_bet |-> counts.fold_to_bet + (IF facing_bet /\ a = "FOLD" THEN 1 ELSE 0)]

\* _get_fold_rate: count / opportunities of FOLD when facing a bet.
_get_fold_rate(counts) == Prob(counts.fold_to_bet, counts.total_facing_bet)

\* Variant of estimate without the minimum-sample threshold.
estimate_NoThreshold(counts, threshold) ==
    [value |-> _get_fold_rate(counts), fallback |-> FALSE]

\* estimate of the opponent's fold rate when facing a bet: count /
\* opportunities, or the neutral prior below the minimum-sample threshold.
estimate(counts, threshold) ==
    IF counts.total_facing_bet < threshold
    THEN [value |-> NeutralPrior, fallback |-> TRUE]
    ELSE [value |-> _get_fold_rate(counts), fallback |-> FALSE]

\* Variant of the bluff probability that ignores the fold rate.
bluff_probability_Flat(alpha, fold_rate) == alpha

\* The bluff probability for an estimated fold rate: alpha at the neutral
\* prior, rising linearly to 1 at fold rate 1 and falling linearly to 0 at fold
\* rate 0, hence monotonic, continuous and within [0, 1].
bluff_probability(alpha, fold_rate) ==
    IF 2 * fold_rate.num >= fold_rate.den
    THEN Prob(alpha.num * fold_rate.den
                  + (2 * fold_rate.num - fold_rate.den) * (alpha.den - alpha.num),
              alpha.den * fold_rate.den)
    ELSE Prob(2 * alpha.num * fold_rate.num, alpha.den * fold_rate.den)

\* The information set of the bluffing decision: low card after the opponent checked.
BluffKey == Str("J") \o Str(".") \o Str("CHECK")

\* ExploitativeStrategy: the equilibrium distribution, with the bluff
\* probability of the bluffing decision shifted by the estimated fold rate
\* unless the estimate is the neutral-prior fallback.
exploitative_strategy(k, counts, threshold) ==
    LET base == get_strategy(k)
        e == estimate(counts, threshold)
    IN  IF base.raised # "None" \/ e.fallback \/ k # BluffKey THEN base
        ELSE LET bluff == bluff_probability(base.value["BET"], e.value) IN
             [raised |-> "None",
              value |-> Dict2("BET", bluff, "CHECK", Prob(bluff.den - bluff.num, bluff.den))]

\* ExploitativeAgent(...) with a new opponent model.
EInit ==
    /\ EngineIdle
    /\ TournamentIdle
    /\ opponent_stats = new_opponent_stats
    /\ min_samples \in MinSampleInputs
    /\ rng = None
    /\ games = <<>>
    /\ recent_history = <<>>
    /\ observed = <<>>

\* What the exploitative agent's calls leave alone.
eframe == <<game_state, state, arg, action, new_state, hands, payoff, choice, tvars, rvars, hvars>>

\* agent.observe_opponent_action(state, a, position): the opponent took a,
\* facing a bet or not.
ObserveOpponentAction(facing_bet, a) ==
    /\ a \in (IF facing_bet THEN {"CALL", "FOLD"} ELSE {"CHECK", "BET"})
    /\ IF facing_bet
       THEN opponent_stats.total_facing_bet < MaxObservations
       ELSE opponent_stats.total_opportunities - opponent_stats.total_facing_bet
                < MaxOtherObservations
    /\ opponent_stats' = observe(opponent_stats, facing_bet, a)
    /\ call' = "observe_opponent_action"
    /\ raised' = "None"
    /\ info_set' = None
    /\ strategy' = None
    /\ UNCHANGED <<min_samples, eframe>>

\* agent.reset()
ResetOpponentModel ==
    /\ opponent_stats' = new_opponent_stats
    /\ call' = "reset"
    /\ raised' = "None"
    /\ info_set' = None
    /\ strategy' = None
    /\ UNCHANGED <<min_samples, eframe>>

\* The distribution the agent samples its action from at information set k.
ExploitativeStrategy(k) ==
    /\ LET r == exploitative_strategy(k, opponent_stats, min_samples) IN
        /\ raised' = r.raised
        /\ strategy' = r.value
    /\ info_set' = k
    /\ call' = "exploitative_strategy"
    /\ UNCHANGED <<opponent_stats, min_samples, eframe>>

ENext ==
    \/ \E facing_bet \in BOOLEAN, a \in Actions : ObserveOpponentAction(facing_bet, a)
    \/ ResetOpponentModel
    \/ \E k \in KeyInputs : ExploitativeStrategy(k)

ESpec == EInit /\ [][ENext]_vars

\* ------------------------------------------------- seeded reproducibility
\* KuhnPokerGame(seed) calls random.seed(seed) on the random module, and
\* deal_cards calls random.shuffle of the same module: every engine of a
\* process draws from one generator.

\* seed=None, the constructor's default.
NoSeed == -1

\* Seeds given to the constructor.
SeedInputs == {42, 123, NoSeed}

\* The decks random.shuffle(['J', 'Q', 'K']) leaves, call after call, after
\* random.seed(seed) (CPython's generator).
random_shuffle(seed) ==
    IF seed = 42
    THEN << <<"Q", "J", "K">>, <<"K", "Q", "J">>, <<"Q", "K", "J">>, <<"Q", "K", "J">>,
            <<"Q", "J", "K">>, <<"J", "Q", "K">>, <<"Q", "K", "J">>, <<"Q", "K", "J">> >>
    ELSE << <<"K", "Q", "J">>, <<"K", "Q", "J">>, <<"K", "J", "Q">>, <<"K", "Q", "J">>,
            <<"J", "Q", "K">>, <<"K", "J", "Q">>, <<"Q", "K", "J">>, <<"J", "K", "Q">> >>

\* Two engines are about to be built in a process whose generator the system seeded.
RInit ==
    /\ EngineIdle
    /\ TournamentIdle
    /\ opponent_stats = None
    /\ min_samples = 0
    /\ rng = None
    /\ games = [i \in {1, 2} |-> None]
    /\ recent_history = <<>>
    /\ observed = <<>>

\* What the calls on the two engines leave alone.
rframe == <<game_state, state, arg, action, new_state, raised, hands, call, payoff,
            info_set, strategy, choice, tvars, evars, hvars>>

\* game_i = KuhnPokerGame(seed): game.py lines 31-33.
Construct(i, seed) ==
    /\ games[i] = None
    /\ rng' = IF seed # NoSeed THEN [seed |-> seed, draws |-> 0] ELSE rng
    /\ games' = [games EXCEPT ![i] = [seed |-> seed, dealt |-> <<>>]]
    /\ UNCHANGED rframe

\* game_i.start_new_hand(): deal_cards shuffles with the module's generator and
\* deals the first two cards of the deck.
Deal(i) ==
    /\ games[i] # None
    /\ Len(games[i].dealt) < MaxDeals
    /\ IF rng = None
       THEN /\ \E cards \in deal_cards :
                games' = [games EXCEPT ![i].dealt = Append(@, cards)]
            /\ rng' = rng
       ELSE /\ rng.draws < Len(random_shuffle(rng.seed))
            /\ LET deck == random_shuffle(rng.seed)[rng.draws + 1] IN
                games' = [games EXCEPT ![i].dealt = Append(@, [p \in Seats |-> deck[p + 1]])]
            /\ rng' = [rng EXCEPT !.draws = @ + 1]
    /\ UNCHANGED rframe

RNext ==
    \/ \E i \in {1, 2}, seed \in SeedInputs : Construct(i, seed)
    \/ \E i \in {1, 2} : Deal(i)

RSpec == RInit /\ [][RNext]_vars

\* ------------------------------------------- HumanLikeAgent.recent_history
\* The length observe_opponent_action cuts recent_history back to.
RecentHistoryLimit == 20

\* Variant of observe_opponent_action that never drops an action.
HumanLikeAgent_observe_opponent_action_NoPop(history, a) == Append(history, a)

\* HumanLikeAgent.observe_opponent_action: append, then pop(0) when the list
\* has grown beyond the limit.
HumanLikeAgent_observe_opponent_action(history, a) ==
    LET appended == Append(history, a) IN
    IF Len(appended) > RecentHistoryLimit THEN Tail(appended) ELSE appended

\* HumanLikeAgent(...): recent_history = [].
HInit ==
    /\ EngineIdle
    /\ TournamentIdle
    /\ opponent_stats = None
    /\ min_samples = 0
    /\ rng = None
    /\ games = <<>>
    /\ recent_history = <<>>
    /\ observed = <<>>

\* What the calls on the agent leave alone.
hframe == <<game_state, state, arg, action, new_state, raised, hands, payoff,
            info_set, strategy, choice, tvars, evars, rvars>>

\* agent.observe_opponent_action(state, a, position). The first actions are
\* any of the four; the later ones repeat them in turn.
ObserveHumanLike(a) ==
    /\ Len(observed) < MaxObserved
    /\ Len(observed) >= FreeObservations => a = observed[Len(observed) - FreeObservations + 1]
    /\ recent_history' = HumanLikeAgent_observe_opponent_action(recent_history, a)
    /\ observed' = Append(observed, a)
    /\ call' = "observe_opponent_action"
    /\ UNCHANGED hframe

\* agent.reset()
ResetHumanLike ==
    /\ recent_history' = <<>>
    /\ observed' = <<>>
    /\ call' = "reset"
    /\ UNCHANGED hframe

HNext ==
    \/ \E a \in Actions : ObserveHumanLike(a)
    \/ ResetHumanLike

HSpec == HInit /\ [][HNext]_vars

\* ------------------------------------------------------------ tournament
\* Names given to the two agents; the second may repeat the first.
NameInputs == {<<"A", "B">>, <<"A", "A">>}

\* Variant of the seat assignment that never alternates.
seat_agents_NoAlternation(i) == (0 :> 1 @@ 1 :> 2)

\* run_tournament lines 45-48: the dict `agents` of hand i, seat -> agent.
seat_agents(i) ==
    IF i % 2 = 0 THEN (0 :> 1 @@ 1 :> 2) ELSE (0 :> 2 @@ 1 :> 1)

\* A call made by play_hand: on agent 1 or 2, or on the engine (agent 0).
Event(op, agent, seat, s, legal, a, next) ==
    [op |-> op, agent |-> agent, seat |-> seat, state |-> s, legal |-> legal,
     action |-> a, next |-> next]

\* Variant of the loop body that applies the action before telling the opponent.
iteration_events_ApplyFirst(agts, s, a) ==
    LET current_player == s.current_player
        opponent_pos == 1 - current_player
        r == apply_action(s, a)
        legal_actions == get_legal_actions(s).value
    IN  <<Event("choose_action", agts[current_player], current_player, s, legal_actions, a, None)>>
        \o <<Event("apply_action", 0, current_player, s, None, a, r.new_state)>>
        \o (IF r.raised = "None"
            THEN <<Event("observe_opponent_action", agts[opponent_pos], opponent_pos, s, None, a, None),
                   Event("observe_result", agts[current_player], current_player, s, None, a, r.new_state)>>
            ELSE <<>>)

\* play_hand lines 106-134: the calls of one pass through the while loop when
\* the acting agent returns a; an exception of apply_action ends the pass.
iteration_events(agts, s, a) ==
    LET current_player == s.current_player
        opponent_pos == 1 - current_player
        r == apply_action(s, a)
        legal_actions == get_legal_actions(s).value
    IN  <<Event("choose_action", agts[current_player], current_player, s, legal_actions, a, None)>>
        \o <<Event("observe_opponent_action", agts[opponent_pos], opponent_pos, s, None, a, None)>>
        \o <<Event("apply_action", 0, current_player, s, None, a, r.new_state)>>
        \o (IF r.raised = "None"
            THEN <<Event("observe_result", agts[current_player], current_player, s, None, a, r.new_state)>>
            ELSE <<>>)

\* Variant of the entry that carries the other seat's card.
action_data_OpponentCard(names, agts, s, a) ==
    [position |-> s.current_player, agent |-> names[agts[s.current_player]],
     action |-> a, card |-> s.cards[1 - s.current_player]]

\* play_hand lines 119-124: the entry appended to actions_taken.
action_data(names, agts, s, a) ==
    [position |-> s.current_player, agent |-> names[agts[s.current_player]],
     action |-> a, card |-> s.cards[s.current_player]]

\* Variant of the hand record that numbers the hands from one.
hand_result_IdFromOne(i, s, taken) ==
    [hand_id |-> i + 1, cards |-> s.cards, actions |-> taken,
     betting_history |-> s.betting_history,
     payoffs |-> [pos \in Seats |-> get_payoff(s, pos).value],
     final_pot |-> s.pot]

\* play_hand lines 138-152: the dict it returns for a finished hand.
hand_result(i, s, taken) ==
    [hand_id |-> i, cards |-> s.cards, actions |-> taken,
     betting_history |-> s.betting_history,
     payoffs |-> [pos \in Seats |-> get_payoff(s, pos).value],
     final_pot |-> s.pot]

\* Variant of the profit update keyed by seat: seat 0 pays agent1, seat 1 agent2.
update_profits_BySeat(prof, names, agts, payoffs) ==
    LET add(n, pos) == IF names[pos + 1] = n THEN payoffs[pos] ELSE 0 IN
    [n \in DOMAIN prof |-> prof[n] + add(n, 0) + add(n, 1)]

\* Variant of the profit update that books only the winnings.
update_profits_WinnerOnly(prof, names, agts, payoffs) ==
    LET add(n, pos) == IF names[agts[pos]] = n /\ payoffs[pos] > 0 THEN payoffs[pos] ELSE 0 IN
    [n \in DOMAIN prof |-> prof[n] + add(n, 0) + add(n, 1)]

\* run_tournament lines 54-56: profits[agents[pos].name] += payoff, seat 0 then seat 1.
update_profits(prof, names, agts, payoffs) ==
    LET add(n, pos) == IF names[agts[pos]] = n THEN payoffs[pos] ELSE 0 IN
    [n \in DOMAIN prof |-> prof[n] + add(n, 0) + add(n, 1)]

\* Variant of the tally that counts only the actions of seat 0.
update_action_counts_SeatZero(counts, taken) ==
    [n \in DOMAIN counts |-> [a \in DOMAIN counts[n] |->
        counts[n][a] + Cardinality({k \in 1..Len(taken) :
                                        /\ taken[k].agent = n
                                        /\ taken[k].action = a
                                        /\ taken[k].position = 0})]]

\* run_tournament lines 59-62: action_counts[agent][action] += 1 for each entry.
update_action_counts(counts, taken) ==
    [n \in DOMAIN counts |-> [a \in DOMAIN counts[n] |->
        counts[n][a] + Cardinality({k \in 1..Len(taken) :
                                        taken[k].agent = n /\ taken[k].action = a})]]

\* run_tournament(agent1, agent2, num_hands) up to the for loop, with a new
\* engine and a new GameLogger.
TInit ==
    /\ game_state = None
    /\ state = None
    /\ arg = None
    /\ action = "None"
    /\ new_state = None
    /\ raised = "None"
    /\ hands = 0
    /\ call = "__init__"
    /\ payoff = None
    /\ info_set = None
    /\ strategy = None
    /\ pc = "for"
    /\ num_hands \in 0..MaxNumHands
    /\ hand_num = 0
    /\ agent_names \in NameInputs
    /\ agents = <<>>
    /\ actions_taken = <<>>
    /\ events = <<>>
    /\ profits = [n \in Range(agent_names) |-> 0]
    /\ action_counts = [n \in Range(agent_names) |-> [a \in Actions |-> 0]]
    /\ log = <<>>
    /\ stats = None
    /\ choice = None
    /\ opponent_stats = None
    /\ min_samples = 0
    /\ rng = None
    /\ games = <<>>
    /\ recent_history = <<>>
    /\ observed = <<>>

\* The variables of the engine's callers that run_tournament does not use.
unused == <<arg, action, new_state, hands, call, payoff, info_set, strategy, choice, evars, rvars, hvars>>

\* The for loop enters hand hand_num: seats, then play_hand up to its while loop.
PlayHandStart ==
    /\ pc = "for"
    /\ hand_num < num_hands
    /\ agents' = seat_agents(hand_num)
    /\ \E s \in start_new_hand :
        /\ game_state' = s
        /\ state' = s
    /\ actions_taken' = <<>>
    /\ events' = <<>>
    /\ pc' = "while"
    /\ UNCHANGED <<raised, num_hands, hand_num, agent_names, profits, action_counts, log, stats, unused>>

\* One pass through play_hand's while loop; the acting agent returns a.
PlayHandStep(a) ==
    /\ pc = "while"
    /\ ~state.is_terminal
    /\ LET r == apply_action(state, a) IN
        /\ actions_taken' = Append(actions_taken, action_data(agent_names, agents, state, a))
        /\ events' = events \o iteration_events(agents, state, a)
        /\ raised' = r.raised
        /\ state' = IF r.raised = "None" THEN r.new_state ELSE state
        /\ pc' = IF r.raised = "None" THEN "while" ELSE "raised"
    /\ UNCHANGED <<game_state, num_hands, hand_num, agent_names, agents, profits,
                   action_counts, log, stats, unused>>

\* play_hand leaves its loop and returns; run_tournament adds the hand to the
\* profits and the action counts and logs it.
PlayHandReturn ==
    /\ pc = "while"
    /\ state.is_terminal
    /\ LET result == hand_result(hand_num, state, actions_taken) IN
        /\ profits' = update_profits(profits, agent_names, agents, result.payoffs)
        /\ action_counts' = update_action_counts(action_counts, result.actions)
        /\ log' = Append(log, result)
    /\ hand_num' = hand_num + 1
    /\ pc' = "for"
    /\ UNCHANGED <<game_state, state, raised, num_hands, agent_names, agents,
                   actions_taken, events, stats, unused>>

\* The for loop is over: the results dict is built; profit / num_hands
\* divides by zero when no hand was asked for.
Return ==
    /\ pc = "for"
    /\ hand_num >= num_hands
    /\ pc' = IF num_hands = 0 THEN "raised" ELSE "done"
    /\ raised' = IF num_hands = 0 THEN "ZeroDivisionError" ELSE raised
    /\ UNCHANGED <<game_state, state, num_hands, hand_num, agent_names, agents,
                   actions_taken, events, profits, action_counts, log, stats, unused>>

\* -------------------------------------------------------------- analyzer
\* _calculate_cumulative_profit lines 206-211: agent name -> position of the
\* last of the hand's actions by that agent.
agent_positions(hand) ==
    [n \in {hand.actions[k].agent : k \in DOMAIN hand.actions} |->
        LET last == CHOOSE k \in DOMAIN hand.actions :
                        /\ hand.actions[k].agent = n
                        /\ \A j \in DOMAIN hand.actions : hand.actions[j].agent = n => j <= k
        IN  hand.actions[last].position]

\* _calculate_cumulative_profit lines 215-220: one pass of the inner loop.
append_profit(cumulative, hand, agent) ==
    LET positions == agent_positions(hand)
        series == cumulative[agent]
        profit == IF agent \in DOMAIN positions THEN hand.payoffs[positions[agent]] ELSE 0
    IN  [cumulative EXCEPT ![agent] = Append(series, series[Len(series)] + profit)]

\* ResultsAnalyzer._calculate_cumulative_profit(hands, agent1, agent2).
RECURSIVE _calculate_cumulative_profit(_, _, _)
_calculate_cumulative_profit(hs, agent1, agent2) ==
    IF hs = <<>>
    THEN [n \in {agent1, agent2} |-> <<0>>]
    ELSE LET before == _calculate_cumulative_profit(SubSeq(hs, 1, Len(hs) - 1), agent1, agent2)
             hand == hs[Len(hs)]
         IN  append_profit(append_profit(before, hand, agent1), hand, agent2)

\* The sum of a list of integers.
RECURSIVE SeqSum(_)
SeqSum(s) == IF s = <<>> THEN 0 ELSE s[1] + SeqSum(Tail(s))

\* _calculate_confidence_intervals lines 144-149: the loop over a hand's
\* actions breaks after the first entry it records.
first_agent_position(hand) ==
    IF hand.actions = <<>> THEN <<>>
    ELSE (hand.actions[1].agent :> hand.actions[1].position)

\* _calculate_confidence_intervals lines 135-158: the list of per-hand profits
\* collected for agent.
RECURSIVE agent_profits(_, _)
agent_profits(hs, agent) ==
    IF hs = <<>> THEN <<>>
    ELSE LET before == agent_profits(SubSeq(hs, 1, Len(hs) - 1), agent)
             hand == hs[Len(hs)]
             positions == first_agent_position(hand)
         IN  IF agent \in DOMAIN positions
             THEN Append(before, hand.payoffs[positions[agent]])
             ELSE before

\* calc_ci lines 161-181: mean and n of a sample (std and the interval's
\* bounds are floating-point statistics of the same sample and are left out);
\* an empty sample gives zeros and no 'n'.
calc_ci(sample) ==
    IF sample = <<>> THEN [mean |-> Prob(0, 1)]
    ELSE [mean |-> Prob(SeqSum(sample), Len(sample)), n |-> Len(sample)]

\* ResultsAnalyzer._calculate_confidence_intervals(hands, agent1, agent2).
_calculate_confidence_intervals(hs, agent1, agent2) ==
    [n \in {agent1, agent2} |-> calc_ci(agent_profits(hs, n))]

\* Variant of the per-card update that books the other seat's payoff.
add_card_OtherSeat(card_stats, hand, pos) ==
    LET card == hand.cards[pos]
        old == IF card \in DOMAIN card_stats THEN card_stats[card]
               ELSE [hands |-> 0, won |-> 0, profit |-> 0]
        seat_payoff == hand.payoffs[1 - pos]
    IN  (card :> [hands |-> old.hands + 1,
                  won |-> old.won + (IF seat_payoff > 0 THEN 1 ELSE 0),
                  profit |-> old.profit + seat_payoff]) @@ card_stats

\* _calculate_card_statistics lines 103-110: one pass of the inner loop, for
\* the card at seat pos of a hand (card_stats is a defaultdict).
add_card(card_stats, hand, pos) ==
    LET card == hand.cards[pos]
        old == IF card \in DOMAIN card_stats THEN card_stats[card]
               ELSE [hands |-> 0, won |-> 0, profit |-> 0]
        seat_payoff == hand.payoffs[pos]
    IN  (card :> [hands |-> old.hands + 1,
                  won |-> old.won + (IF seat_payoff > 0 THEN 1 ELSE 0),
                  profit |-> old.profit + seat_payoff]) @@ card_stats

\* _calculate_card_statistics lines 99-110: the counts after all hands.
RECURSIVE card_counts(_)
card_counts(hs) ==
    IF hs = <<>> THEN <<>>
    ELSE LET before == card_counts(SubSeq(hs, 1, Len(hs) - 1))
             hand == hs[Len(hs)]
         IN  add_card(add_card(before, hand, 0), hand, 1)

\* ResultsAnalyzer._calculate_card_statistics(hands): the counts with the win
\* rate and the average profit of every card that occurred.
_calculate_card_statistics(hs) ==
    LET counts == card_counts(hs) IN
    [c \in DOMAIN counts |->
        [hands |-> counts[c].hands, won |-> counts[c].won, profit |-> counts[c].profit,
         win_rate |-> Prob(counts[c].won, counts[c].hands),
         avg_profit |-> Prob(counts[c].profit, counts[c].hands)]]

\* The two callers of analyze_tournament: main.py lines 117-125 build the
\* tournament data with 'hands' from logger.get_hands(); analyze_results
\* (analyzer.py lines 274-293) passes the dict run_tournament returned.
CallerInputs == {"main", "analyze_results"}

\* The tournament data a caller passes. The dict run_tournament returns
\* (tournament.py lines 68-77) has no 'hands' key.
tournament_data(caller) ==
    IF caller = "main"
    THEN [hands |-> log, profits |-> profits, total_hands |-> num_hands]
    ELSE [profits |-> profits, total_hands |-> num_hands]

\* analyze_tournament on the finished tournament's data: hands is
\* tournament_data.get('hands', []), the names are the keys of profits in
\* insertion order, and agent_names[1] fails when there is only one key.
AnalyzeTournament(caller) ==
    /\ pc = "done"
    /\ LET data == tournament_data(caller)
           hs == IF "hands" \in DOMAIN data THEN data.hands ELSE <<>>
           names == IF agent_names[1] = agent_names[2]
                    THEN <<agent_names[1]>> ELSE agent_names
       IN  IF Len(names) < 2
           THEN /\ raised' = "IndexError"
                /\ stats' = None
                /\ pc' = "raised"
           ELSE /\ raised' = raised
                /\ stats' =
                    [total_hands |-> data.total_hands,
                     card_statistics |-> _calculate_card_statistics(hs),
                     cumulative_profit |->
                        _calculate_cumulative_profit(hs, names[1], names[2])]
                    @@ (IF hs # <<>>
                        THEN [confidence_intervals |->
                                _calculate_confidence_intervals(hs, names[1], names[2])]
                        ELSE <<>>)
                /\ pc' = "analyzed"
    /\ UNCHANGED <<game_state, state, num_hands, hand_num, agent_names, agents,
                   actions_taken, events, profits, action_counts, log, unused>>

TNext ==
    \/ PlayHandStart
    \/ \E a \in Actions : PlayHandStep(a)
    \/ PlayHandReturn
    \/ Return
    \/ \E caller \in CallerInputs : AnalyzeTournament(caller)

TSpec == TInit /\ [][TNext]_vars

\* One pass through play_hand's while loop when both agents are GTOAgents: the
\* acting agent's choose_action returns one of its possible outcomes.
PlayHandStepGTO ==
    /\ pc = "while"
    /\ ~state.is_terminal
    /\ \E r \in GTOAgent_choose_action(state, get_legal_actions(state).value,
                                       state.current_player) :
        IF r.raised = "None"
        THEN PlayHandStep(r.value)
        ELSE /\ pc' = "raised"
             /\ raised' = r.raised
             /\ UNCHANGED <<game_state, state, num_hands, hand_num, agent_names, agents,
                            actions_taken, events, profits, action_counts, log, stats, unused>>

\* run_tournament(GTOAgent(...), GTOAgent(...), num_hands)
GNext ==
    \/ PlayHandStart
    \/ PlayHandStepGTO
    \/ PlayHandReturn
    \/ Return

GSpec == TInit /\ [][GNext]_vars

\* ------------------------------------------------------------------ claims
\* The last call was apply_action and it returned a state.
Applied == action # "None" /\ raised = "None"

\* C1: apply_action raises ValueError whenever the action is not among
\* get_legal_actions(state): nothing is returned, the argument is left as it
\* was and the caller keeps its state; every action on a terminal state fails.
C1_IllegalActionRaises ==
    [][(state # None /\ action' # "None") =>
        LET legal == get_legal_actions(state) IN
        /\ (legal.raised # "None" \/ action' \notin Range(legal.value)) =>
                /\ raised' = "ValueError"
                /\ new_state' = None
                /\ arg' = state
                /\ state' = state
        /\ state.is_terminal => (raised' = "ValueError" /\ state' = state)]_vars

\* An action was applied to a terminal state and failed.
C1_Witness ==
    /\ action = "CHECK" /\ raised = "ValueError"
    /\ arg # None /\ arg.is_terminal /\ state = arg

\* C2: in every terminal state reached by play the two payoffs sum to zero.
C2_ZeroSum ==
    (state # None /\ state.is_terminal) => state.payoffs[0] + state.payoffs[1] = 0

\* A hand ended at a showdown over a pot of four.
C2_Witness ==
    /\ state # None /\ state.is_terminal
    /\ state.betting_history = <<"CHECK", "BET", "CALL">>
    /\ state.pot = 4

\* C3: get_legal_actions follows the table: terminal -> none; empty history
\* -> CHECK, BET; history [CHECK] -> CHECK, BET; last action BET -> CALL, FOLD.
C3_LegalActionsTable ==
    state # None =>
        LET h == state.betting_history
            legal == get_legal_actions(state)
            acts == Range(legal.value)
        IN  /\ state.is_terminal => (legal.raised = "None" /\ acts = {})
            /\ (~state.is_terminal /\ h = <<>>) =>
                    (legal.raised = "None" /\ acts = {"CHECK", "BET"})
            /\ (~state.is_terminal /\ h = <<"CHECK">>) =>
                    (legal.raised = "None" /\ acts = {"CHECK", "BET"})
            /\ (~state.is_terminal /\ h # <<>> /\ h[Len(h)] = "BET") =>
                    (legal.raised = "None" /\ acts = {"CALL", "FOLD"})

\* The checker faces a bet: CHECK-BET, not terminal.
C3_Witness ==
    /\ state # None /\ ~state.is_terminal
    /\ state.betting_history = <<"CHECK", "BET">>
    /\ Range(get_legal_actions(state).value) = {"CALL", "FOLD"}

\* C4: at every non-terminal state of play get_legal_actions returns exactly
\* two actions and does not raise the invalid-betting-history error.
C4_TwoLegalActions ==
    (state # None /\ ~state.is_terminal) =>
        /\ get_legal_actions(state).raised = "None"
        /\ Len(get_legal_actions(state).value) = 2
        /\ Cardinality(Range(get_legal_actions(state).value)) = 2

\* The second seat's decision after a check.
C4_Witness ==
    /\ state # None /\ ~state.is_terminal
    /\ state.betting_history = <<"CHECK">>
    /\ state.current_player = 1

\* C5: the state a legal apply_action returns is terminal exactly when the
\* action was FOLD or CALL or the new history is CHECK-CHECK.
C5_TerminalIff ==
    Applied =>
        (new_state.is_terminal <=>
            \/ action = "FOLD"
            \/ action = "CALL"
            \/ new_state.betting_history = <<"CHECK", "CHECK">>)

\* A bet after a check was applied and the hand goes on.
C5_Witness ==
    /\ Applied /\ action = "BET"
    /\ new_state.betting_history = <<"CHECK", "BET">>
    /\ ~new_state.is_terminal

\* Number of BET and CALL actions in a history.
BetsAndCalls(h) == Cardinality({i \in 1..Len(h) : h[i] \in {"BET", "CALL"}})

\* C6: the pot is two antes plus one unit per BET and CALL in the history;
\* CHECK and FOLD leave the pot as it was, BET and CALL add exactly one.
C6_PotAccounting ==
    /\ state # None => state.pot = 2 * ANTE + BetsAndCalls(state.betting_history)
    /\ Applied =>
        new_state.pot = arg.pot + (IF action \in {"BET", "CALL"} THEN 1 ELSE 0)

\* A call raised the pot from three to four.
C6_Witness ==
    /\ Applied /\ action = "CALL"
    /\ arg.pot = 3 /\ new_state.pot = 4

\* C7 as stated: betting_history never has more than two actions.
C7_HistoryAtMostTwo ==
    state # None => Len(state.betting_history) <= 2

\* C7 (amended): betting_history never has more than three actions, and a
\* history of three is CHECK, BET followed by the checker's CALL or FOLD.
C7_HistoryAtMostThree ==
    state # None =>
        /\ Len(state.betting_history) <= 3
        /\ Len(state.betting_history) = 3 =>
            /\ SubSeq(state.betting_history, 1, 2) = <<"CHECK", "BET">>
            /\ state.betting_history[3] \in {"CALL", "FOLD"}

\* The checker folded to a bet: three actions.
C7_Witness ==
    /\ state # None
    /\ state.betting_history = <<"CHECK", "BET", "FOLD">>

\* C8: a state made by the engine has payoffs exactly when it is terminal.
C8_PayoffsIffTerminal ==
    \A s \in {game_state, state, new_state} :
        s # None => ((s.payoffs # None) <=> s.is_terminal)

\* A hand ended by a fold carries payoffs.
C8_Witness ==
    /\ state # None /\ state.is_terminal
    /\ state.betting_history = <<"BET", "FOLD">>
    /\ state.payoffs # None

\* The order of the ranks, J < Q < K.
RankOf(c) == CASE c = "J" -> 1 [] c = "Q" -> 2 [] c = "K" -> 3

\* C9: at a showdown (CHECK-CHECK or a CALL) the seat with the higher card
\* gets +(pot // 2) and the other -(pot // 2); after CHECK-CHECK the pot is
\* two and the payoffs are +1 and -1.
C9_Showdown ==
    (state # None /\ state.is_terminal
        /\ state.betting_history[Len(state.betting_history)] \in {"CHECK", "CALL"}) =>
        LET hi == CHOOSE p \in Seats : RankOf(state.cards[p]) > RankOf(state.cards[1 - p]) IN
        /\ \E p \in Seats : RankOf(state.cards[p]) > RankOf(state.cards[1 - p])
        /\ state.payoffs[hi] = state.pot \div 2
        /\ state.payoffs[1 - hi] = -(state.pot \div 2)
        /\ state.betting_history = <<"CHECK", "CHECK">> =>
            /\ state.pot = 2
            /\ state.payoffs[hi] = 1
            /\ state.payoffs[1 - hi] = -1

\* Queen against king after CHECK-CHECK: seat 1 wins one.
C9_Witness ==
    /\ state # None /\ state.is_terminal
    /\ state.betting_history = <<"CHECK", "CHECK">>
    /\ state.cards[0] = "Q" /\ state.cards[1] = "K"
    /\ state.payoffs[1] = 1

\* C10: a FOLD ends the hand at once; whatever the cards, the other seat gets
\* +(pot // 2) and the folder -(pot // 2): +1, -1 for seats 0, 1 after BET-FOLD
\* and -1, +1 after CHECK-BET-FOLD.
C10_Fold ==
    (Applied /\ action = "FOLD") =>
        LET folder == arg.current_player IN
        /\ new_state.is_terminal
        /\ new_state.payoffs[1 - folder] = new_state.pot \div 2
        /\ new_state.payoffs[folder] = -(new_state.pot \div 2)
        /\ new_state.betting_history = <<"BET", "FOLD">> =>
            (new_state.payoffs[0] = 1 /\ new_state.payoffs[1] = -1)
        /\ new_state.betting_history = <<"CHECK", "BET", "FOLD">> =>
            (new_state.payoffs[0] = -1 /\ new_state.payoffs[1] = 1)

\* The holder of the king folds to a bet after checking and loses one.
C10_Witness ==
    /\ Applied /\ action = "FOLD"
    /\ arg.cards[arg.current_player] = "K"
    /\ new_state.betting_history = <<"CHECK", "BET", "FOLD">>
    /\ new_state.payoffs[0] = -1

\* C11: get_payoff raises the not-terminal ValueError on every non-terminal
\* state for either seat, and on a terminal state returns state.payoffs[seat].
C11_GetPayoff ==
    call = "get_payoff" =>
        IF state.is_terminal
        THEN raised = "None" /\ payoff.value = state.payoffs[payoff.seat]
        ELSE raised = "ValueError"

\* Seat 1 was paid its loss after seat 0 won a called bet.
C11_Witness ==
    /\ call = "get_payoff" /\ raised = "None"
    /\ payoff.seat = 1 /\ payoff.value = -2

\* C12: whatever was dealt before, start_new_hand returns a state with two
\* distinct cards of J, Q, K, pot 2, seat 0 to act, an empty history, not
\* terminal and without payoffs.
C12_StartNewHand ==
    call = "start_new_hand" =>
        /\ DOMAIN new_state.cards = {0, 1}
        /\ \A p \in {0, 1} : new_state.cards[p] \in {"J", "Q", "K"}
        /\ new_state.cards[0] # new_state.cards[1]
        /\ new_state.pot = 2
        /\ new_state.current_player = 0
        /\ new_state.betting_history = <<>>
        /\ ~new_state.is_terminal
        /\ new_state.payoffs = None

\* A second hand was dealt.
C12_Witness ==
    /\ call = "start_new_hand" /\ hands = 2
    /\ new_state.betting_history = <<>>

\* C13: a legal action that does not end the hand hands the turn to the
\* other seat (seat 1 after CHECK, seat 0 after CHECK-BET); one that ends the
\* hand leaves current_player at the seat that acted.
C13_CurrentPlayer ==
    Applied =>
        /\ ~new_state.is_terminal => new_state.current_player = 1 - arg.current_player
        /\ new_state.is_terminal => new_state.current_player = arg.current_player
        /\ new_state.betting_history = <<"CHECK">> => new_state.current_player = 1
        /\ new_state.betting_history = <<"CHECK", "BET">> => new_state.current_player = 0

\* Seat 1 called and the finished hand still names seat 1.
C13_Witness ==
    /\ Applied /\ action = "CALL"
    /\ arg.current_player = 1
    /\ new_state.is_terminal /\ new_state.current_player = 1

\* C14: a legal apply_action leaves every field of its argument as it was
\* and returns a different state with the same cards; the cards stay those
\* that were dealt, and stepping the same argument again gives the same result.
C14_InputNotMutated ==
    [][(call' = "apply_action" /\ raised' = "None") =>
        /\ arg' = state
        /\ new_state' # arg'
        /\ new_state'.cards = state.cards
        /\ new_state'.cards = game_state.cards
        /\ apply_action(arg', action').raised = "None"
        /\ apply_action(arg', action').new_state = new_state']_vars

\* After CHECK-BET was stepped the argument still holds the one-action history.
C14_Witness ==
    /\ Applied /\ action = "BET"
    /\ arg.betting_history = <<"CHECK">> /\ arg.pot = 2 /\ ~arg.is_terminal
    /\ new_state.betting_history = <<"CHECK", "BET">>
    /\ new_state.cards = arg.cards

\* C15 as stated: the pot is even in every terminal state.
C15_PotAlwaysEven ==
    (state # None /\ state.is_terminal) => state.pot % 2 = 0

\* C15 (amended): the pot is even (2 or 4) in every terminal state reached by
\* a showdown, where pot // 2 is exact; in every terminal state reached by a
\* FOLD the pot is 3 and pot // 2 rounds down to 1.
C15_PotParity ==
    (state # None /\ state.is_terminal) =>
        LET last == state.betting_history[Len(state.betting_history)] IN
        /\ last \in {"CHECK", "CALL"} =>
            /\ state.pot \in {2, 4}
            /\ 2 * FloorDiv(state.pot, 2) = state.pot
        /\ last = "FOLD" =>
            /\ state.pot = 3
            /\ FloorDiv(state.pot, 2) = 1
            /\ \A p \in Seats : state.payoffs[p] \in {1, -1}

\* A bet was folded to: an odd pot of three in a terminal state.
C15_Witness ==
    /\ state # None /\ state.is_terminal
    /\ state.betting_history = <<"BET", "FOLD">>
    /\ state.pot = 3

\* An information-set key written as card, dot, history part.
Key(card, part) == Str(card) \o Str(".") \o Str(part)

\* The nine keys of the equilibrium table.
NineKeys == {Key(c, part) : c \in {"J", "Q", "K"}, part \in {"", "BET", "CHECK"}}

\* The probability p is the fraction n/d.
IsFrac(p, n, d) == p.num * d = n * p.den

\* The distribution puts probability 1 on action a and 0 on its other action.
Pure(dist, a) ==
    /\ a \in DOMAIN dist
    /\ Cardinality(DOMAIN dist) = 2
    /\ \A b \in DOMAIN dist : IsFrac(dist[b], IF b = a THEN 1 ELSE 0, 1)

\* C16: get_strategy returns the equilibrium table with alpha = 1/3 on the
\* nine information sets: first to act J, Q check and K bets; facing a bet J
\* folds and Q, K call; after a check J checks 2/3 and bets 1/3, Q checks, K bets.
C16_EquilibriumTable ==
    (call = "get_strategy" /\ info_set \in NineKeys) =>
        /\ raised = "None"
        /\ info_set = Key("J", "") => Pure(strategy, "CHECK")
        /\ info_set = Key("Q", "") => Pure(strategy, "CHECK")
        /\ info_set = Key("K", "") => Pure(strategy, "BET")
        /\ info_set = Key("J", "BET") => Pure(strategy, "FOLD")
        /\ info_set = Key("Q", "BET") => Pure(strategy, "CALL")
        /\ info_set = Key("K", "BET") => Pure(strategy, "CALL")
        /\ info_set = Key("J", "CHECK") =>
            /\ DOMAIN strategy = {"CHECK", "BET"}
            /\ IsFrac(strategy["CHECK"], 2, 3)
            /\ IsFrac(strategy["BET"], 1, 3)
        /\ info_set = Key("Q", "CHECK") => Pure(strategy, "CHECK")
        /\ info_set = Key("K", "CHECK") => Pure(strategy, "BET")

\* The jack's mixed entry was looked up.
C16_Witness ==
    /\ call = "get_strategy" /\ raised = "None"
    /\ info_set = Key("J", "CHECK")
    /\ IsFrac(strategy["BET"], 1, 3)

\* Sum of the probabilities of a distribution over the actions in S.
RECURSIVE SumProb(_, _)
SumProb(dist, S) ==
    IF S = {} THEN Prob(0, 1)
    ELSE LET a == CHOOSE x \in S : TRUE
             r == SumProb(dist, S \ {a})
         IN Prob(dist[a].num * r.den + r.num * dist[a].den, dist[a].den * r.den)

\* C17: at every non-terminal state of play the equilibrium distribution for
\* the acting seat's information set exists, is over exactly the legal
\* actions, has every probability in [0,1] and sums to 1.
C17_DistributionOverLegal ==
    (state # None /\ ~state.is_terminal) =>
        LET r == get_strategy(get_info_set(state, state.current_player)) IN
        /\ r.raised = "None"
        /\ DOMAIN r.value = Range(get_legal_actions(state).value)
        /\ \A a \in DOMAIN r.value :
            /\ r.value[a].den > 0
            /\ 0 <= r.value[a].num
            /\ r.value[a].num <= r.value[a].den
        /\ IsFrac(SumProb(r.value, DOMAIN r.value), 1, 1)

\* Seat 1 holds the jack after a check: the mixed decision.
C17_Witness ==
    /\ state # None /\ ~state.is_terminal
    /\ state.betting_history = <<"CHECK">>
    /\ state.cards[1] = "J"
    /\ IsFrac(get_strategy(get_info_set(state, 1)).value["CHECK"], 2, 3)

\* History parts of the keys get_info_set gives for finished hands.
TerminalParts ==
    {Join(h) : h \in {<<"CHECK", "CHECK">>, <<"BET", "CALL">>, <<"BET", "FOLD">>,
                      <<"CHECK", "BET", "CALL">>, <<"CHECK", "BET", "FOLD">>}}

\* C18: get_strategy raises ValueError on every key outside the nine of the
\* table; the keys of finished hands (CHECKCHECK, BETCALL, BETFOLD,
\* CHECKBETCALL, CHECKBETFOLD) are among those.
C18_UnknownKeyRaises ==
    /\ (call = "get_strategy" /\ info_set \notin NineKeys) =>
            (raised = "ValueError" /\ strategy = None)
    /\ (state # None /\ state.is_terminal) =>
            \A p \in Seats :
                LET k == get_info_set(state, p) IN
                /\ Len(Split(k)) = 2
                /\ Split(k)[2] \in TerminalParts
                /\ k \notin NineKeys
                /\ get_strategy(k).raised = "ValueError"

\* The key of a finished CHECK-BET-CALL hand was looked up and refused.
C18_Witness ==
    /\ call = "get_strategy" /\ raised = "ValueError"
    /\ info_set = Str("K") \o Str(".") \o Join(<<"CHECK", "BET", "CALL">>)
    /\ state.is_terminal

\* C19: facing a bet is one situation: seat 1 after BET and seat 0 after
\* CHECK-BET both get the key card.BET, hence the same distribution for the
\* same card.
C19_FacingBetOneKey ==
    (state # None /\ ~state.is_terminal
        /\ state.betting_history \in {<<"BET">>, <<"CHECK", "BET">>}) =>
        LET p == state.current_player
            k == get_info_set(state, p)
        IN  /\ p = (IF state.betting_history = <<"BET">> THEN 1 ELSE 0)
            /\ k = Key(state.cards[p], "BET")
            /\ get_strategy(k) = _get_p2_facing_bet(Str(state.cards[p]))
            /\ get_strategy(k).raised = "None"

\* Seat 0 holds the queen and faces a bet after checking.
C19_Witness ==
    /\ state # None /\ ~state.is_terminal
    /\ state.betting_history = <<"CHECK", "BET">>
    /\ state.cards[0] = "Q"
    /\ get_info_set(state, 0) = Key("Q", "BET")

\* C20: a seat's information set does not depend on the other seat's card:
\* replacing the opponent's card by any other card leaves get_info_set(p) and
\* the distribution looked up for it the same.
C20_OpponentCardHidden ==
    state # None =>
        \A p \in Seats : \A c \in {"J", "Q", "K"} \ {state.cards[p]} :
            LET other == [state EXCEPT !.cards[1 - p] = c] IN
            /\ get_info_set(other, p) = get_info_set(state, p)
            /\ get_strategy(get_info_set(other, p)) = get_strategy(get_info_set(state, p))

\* King against queen after a bet: seat 0, not to act, sees K.BET.
C20_Witness ==
    /\ state # None
    /\ state.betting_history = <<"BET">> /\ state.current_player = 1
    /\ state.cards[0] = "K" /\ state.cards[1] = "Q"
    /\ get_info_set(state, 0) = Key("K", "BET")

\* ------------------------------------------------- claims on the tournament
\* A hand of the tournament is being played (or was cut short by an exception).
InHand == pc = "while" \/ (pc = "raised" /\ raised = "ValueError")

\* The two agents carry different names.
DistinctNames == agent_names[1] # agent_names[2]

\* The seat the claims give agent i (1 = A, 2 = B) in hand h: A sits at seat 0
\* in even hands and at seat 1 in odd hands, B the other way round.
SeatOf(i, h) == IF h % 2 = 0 THEN i - 1 ELSE 2 - i

\* Number of logged hands in which the agent named n made the first action.
ActedFirst(n) == Cardinality({k \in DOMAIN log : log[k].actions[1].agent = n})

\* C21: in run_tournament(A, B, n) hand i seats A at seat 0 and B at seat 1
\* when i is even and the other way round when i is odd, for every i < n; after
\* an even number of hands each of the two has acted first equally often.
C21_SeatAlternation ==
    /\ InHand =>
        /\ hand_num < num_hands
        /\ agents[SeatOf(1, hand_num)] = 1
        /\ agents[SeatOf(2, hand_num)] = 2
        /\ \A k \in DOMAIN actions_taken :
            actions_taken[k].agent = agent_names[agents[actions_taken[k].position]]
    /\ (pc \in {"for", "done"} /\ hand_num % 2 = 0 /\ DistinctNames) =>
        ActedFirst(agent_names[1]) = ActedFirst(agent_names[2])

C21_Witness ==
    /\ pc = "done"
    /\ hand_num = 2
    /\ DistinctNames
    /\ ActedFirst(agent_names[1]) = 1
    /\ ActedFirst(agent_names[2]) = 1

\* Summed payoff of agent i over the first k logged hands, taking in each hand
\* the payoff of the seat the agent sat at.
RECURSIVE IdentityProfit(_, _)
IdentityProfit(i, k) ==
    IF k = 0 THEN 0
    ELSE IdentityProfit(i, k - 1) + log[k].payoffs[SeatOf(i, log[k].hand_id)]

\* C22: run_tournament accumulates profit per agent and not per seat, and after
\* any number of completed hands profit[A] + profit[B] = 0.
C22_ProfitByIdentity ==
    pc # "idle" =>
        /\ profits[agent_names[1]] + profits[agent_names[2]] = 0
        /\ DistinctNames =>
            \A i \in {1, 2} : profits[agent_names[i]] = IdentityProfit(i, Len(log))

C22_Witness ==
    /\ pc = "for"
    /\ Len(log) = 2
    /\ DistinctNames
    /\ profits[agent_names[1]] = 3
    /\ log[1].payoffs[0] = 1
    /\ log[2].payoffs[1] = 2

\* The state play_hand held after the j-th action of the current hand.
StateAfter(j) ==
    IF 4 * j <= Len(events) THEN events[4 * j].next ELSE None

\* C23: for every action of a hand play_hand calls, in this order,
\* choose_action of the acting seat's agent on the current state and its legal
\* actions, observe_opponent_action of the other seat's agent with the
\* pre-action state and the chosen action, apply_action, and observe_result of
\* the acting agent with (state, action, next state); each action is reported
\* once to the other seat's agent and never to the agent that took it.
C23_CallOrder ==
    InHand =>
        /\ Len(events) = 4 * Len(actions_taken) - (IF pc = "raised" THEN 1 ELSE 0)
        /\ \A j \in DOMAIN actions_taken :
            LET seat == actions_taken[j].position
                a == actions_taken[j].action
                e == [k \in 1..4 |-> IF 4 * (j - 1) + k <= Len(events)
                                     THEN events[4 * (j - 1) + k] ELSE None]
                s == e[1].state
            IN  /\ e[1].op = "choose_action"
                /\ e[1].agent = agents[seat]
                /\ e[1].seat = seat
                /\ s.current_player = seat
                /\ s = (IF j = 1 THEN game_state ELSE StateAfter(j - 1))
                /\ e[1].legal = get_legal_actions(s).value
                /\ e[1].action = a
                /\ e[2].op = "observe_opponent_action"
                /\ e[2].agent = agents[1 - seat]
                /\ e[2].agent # agents[seat]
                /\ e[2].seat = 1 - seat
                /\ e[2].state = s
                /\ e[2].action = a
                /\ e[3].op = "apply_action"
                /\ e[3].state = s
                /\ e[3].action = a
                /\ e[3].next = apply_action(s, a).new_state
                /\ e[4] # None =>
                    /\ e[4].op = "observe_result"
                    /\ e[4].agent = agents[seat]
                    /\ e[4].state = s
                    /\ e[4].action = a
                    /\ e[4].next = e[3].next
                    /\ e[4].next = (IF j = Len(actions_taken) THEN state ELSE events[4 * j + 1].state)
                /\ Cardinality({k \in DOMAIN events :
                        /\ events[k].op = "observe_opponent_action"
                        /\ 4 * (j - 1) < k
                        /\ k <= 4 * j}) = 1

C23_Witness ==
    /\ pc = "while"
    /\ state.is_terminal
    /\ Len(actions_taken) = 3
    /\ Len(events) = 12
    /\ events[10].op = "observe_opponent_action"
    /\ events[10].agent = 2
    /\ events[10].seat = 1
    /\ events[12].op = "observe_result"

\* The five betting histories that end a hand.
TerminalHistories ==
    { <<"CHECK", "CHECK">>, <<"BET", "FOLD">>, <<"BET", "CALL">>,
      <<"CHECK", "BET", "FOLD">>, <<"CHECK", "BET", "CALL">> }

\* C24: run_tournament with n >= 1 hands and a new logger logs one record per
\* hand, only after the hand reached a terminal state and in play order: the
\* logger ends with n records whose hand_id values are 0, 1, ..., n-1.
C24_OneRecordPerHand ==
    pc \in {"for", "while", "done"} =>
        /\ Len(log) = hand_num
        /\ \A k \in DOMAIN log :
            /\ log[k].hand_id = k - 1
            /\ log[k].betting_history \in TerminalHistories
            /\ \A pos \in Seats : log[k].payoffs[pos] \in {-2, -1, 1, 2}
        /\ pc = "done" => Len(log) = num_hands /\ num_hands >= 1

C24_Witness ==
    /\ pc = "done"
    /\ num_hands = 2
    /\ Len(log) = 2
    /\ log[1].hand_id = 0
    /\ log[2].hand_id = 1

\* C30: for each agent the analyzer's cumulative profit series has length
\* (number of hands + 1), starts at 0, and its k-th element is the agent's
\* summed payoff over the first k hands in play order; its last element is the
\* total profit run_tournament reports for the agent. It fails for the
\* statistics analyze_results computes: they are taken from the dict
\* run_tournament returned, which carries no hands, so each series is <<0>>.
C30_CumulativeProfit ==
    pc = "analyzed" =>
        \A i \in {1, 2} :
            LET series == stats.cumulative_profit[agent_names[i]] IN
            /\ Len(series) = Len(log) + 1
            /\ series[1] = 0
            /\ \A k \in 0..Len(log) : series[k + 1] = IdentityProfit(i, k)
            /\ series[Len(series)] = profits[agent_names[i]]

\* ----------------------------------------------------- claims on the agents
\* The last call was choose_action on an agent of the given class.
Chose(agent) == choice # None /\ choice.agent = agent

\* C26: HumanLikeAgent.choose_action returns a member of the non-empty
\* legal_actions for every outcome of the external decision call: a parsed
\* legal action is returned as it is; when the call raises, the reply does not
\* parse or names an action that is not legal, it returns legal_actions[0],
\* CHECK when not facing a bet and CALL when facing one.
C26_HumanLikeFallback ==
    (Chose("HumanLikeAgent") /\ choice.legal_actions # <<>>) =>
        LET parsed == IF choice.reply.kind = "json" THEN upper(choice.reply.action) ELSE "None"
            history == state.betting_history
            facing_bet == history # <<>> /\ history[Len(history)] = "BET"
        IN  /\ raised = "None"
            /\ choice.value \in Range(choice.legal_actions)
            /\ choice.legal_actions = get_legal_actions(state).value
            /\ parsed \in Range(choice.legal_actions) => choice.value = parsed /\ ~choice.fallback
            /\ parsed \notin Range(choice.legal_actions) =>
                /\ choice.fallback
                /\ choice.value = choice.legal_actions[1]
                /\ choice.value = (IF facing_bet THEN "CALL" ELSE "CHECK")

C26_Witness ==
    /\ Chose("HumanLikeAgent")
    /\ state.betting_history = <<"CHECK", "BET">>
    /\ choice.reply = Reply("json", "BET")
    /\ choice.value = "CALL"
    /\ choice.fallback

\* C27: at every non-terminal state of play GTOAgent.choose_action, called for
\* the acting seat with the engine's legal actions, returns one of them that
\* has non-zero probability in the equilibrium distribution of the seat's
\* information set; it does not fail and does not fall back on a random legal
\* action.
C27_GTOChoice ==
    (Chose("GTOAgent") /\ ~state.is_terminal /\ choice.position = state.current_player) =>
        /\ raised = "None"
        /\ ~choice.fallback
        /\ choice.legal_actions = get_legal_actions(state).value
        /\ choice.value \in Range(choice.legal_actions)
        /\ LET dist == get_strategy(get_info_set(state, state.current_player)).value IN
            /\ choice.value \in DOMAIN dist
            /\ dist[choice.value].num > 0

C27_Witness ==
    /\ Chose("GTOAgent")
    /\ state.betting_history = <<"CHECK">>
    /\ state.cards[1] = "J"
    /\ choice.position = 1
    /\ choice.value = "BET"
    /\ strategy["BET"] = Prob(1, 3)

\* ---------------------------------------- claims on the exploitative agent
\* C28: with an opponent model below the minimum-sample threshold the
\* exploitative strategy gives, for each of the nine information sets, exactly
\* the distribution the equilibrium table gives.
C28_BelowThresholdIsEquilibrium ==
    (/\ call = "exploitative_strategy"
     /\ opponent_stats.total_facing_bet < min_samples
     /\ info_set \in NineKeys) =>
        /\ raised = "None"
        /\ strategy = get_strategy(info_set).value

C28_Witness ==
    /\ call = "exploitative_strategy"
    /\ info_set = BluffKey
    /\ min_samples = 10
    /\ opponent_stats.total_facing_bet = 9
    /\ opponent_stats.fold_to_bet = 9
    /\ strategy["BET"] = Prob(1, 3)

\* C29: after at least 30 observations of FOLD facing a bet and no other
\* observation, the exploitative strategy's probability of BET with the low
\* card after the opponent checked is strictly greater than the equilibrium 1/3.
C29_BluffsMoreAgainstFolders ==
    (/\ call = "exploitative_strategy"
     /\ info_set = BluffKey
     /\ opponent_stats.fold_to_bet >= 30
     /\ opponent_stats.total_opportunities = opponent_stats.fold_to_bet) =>
        /\ raised = "None"
        /\ strategy["BET"].den > 0
        /\ 3 * strategy["BET"].num > strategy["BET"].den

C29_Witness ==
    /\ call = "exploitative_strategy"
    /\ info_set = BluffKey
    /\ opponent_stats = [total_opportunities |-> 30, total_facing_bet |-> 30, fold_to_bet |-> 30]
    /\ IsFrac(strategy["BET"], 1, 1)

\* ------------------------------------------- claims on seeded reproducibility
\* C25: two engines constructed with the same seed deal identical cards, hand
\* by hand, also when both are constructed before either one deals. It fails:
\* the engines share the module's generator, so the second engine's first deal
\* is the generator's second shuffle.
C25_SameSeedSameCards ==
    (/\ games # <<>>
     /\ games[1] # None
     /\ games[2] # None
     /\ games[1].seed = games[2].seed
     /\ games[1].seed # NoSeed) =>
        \A k \in DOMAIN games[1].dealt \cap DOMAIN games[2].dealt :
            games[1].dealt[k] = games[2].dealt[k]

\* ---------------------------------------------------- claims on the analyzer
\* The batch of hand records the analysis was given: the confidence intervals
\* are computed exactly when it is not empty, and then it is the log.
Batch == IF "confidence_intervals" \in DOMAIN stats THEN log ELSE <<>>

\* C31: for each agent the per-hand profit sample behind the mean and the
\* confidence interval holds one observation for every hand of the batch (n is
\* the number of hands), the agent's payoff in that hand. It fails: the sample
\* holds only the hands in which the agent made the first action.
C31_OneObservationPerHand ==
    (pc = "analyzed" /\ "confidence_intervals" \in DOMAIN stats) =>
        \A i \in {1, 2} :
            LET ci == stats.confidence_intervals[agent_names[i]] IN
            /\ "n" \in DOMAIN ci
            /\ ci.n = Len(Batch)
            /\ ci.mean.num * Len(Batch) = IdentityProfit(i, Len(Batch)) * ci.mean.den

\* The (hand, seat) pairs of the batch that hold card c.
Pairs(c) == {pr \in (DOMAIN Batch) \X Seats : Batch[pr[1]].cards[pr[2]] = c}

\* A field of the statistics of card c, 0 for a card that never occurred.
CardStat(c, field) ==
    IF c \in DOMAIN stats.card_statistics THEN stats.card_statistics[c][field] ELSE 0

\* The summed payoff of a set of (hand, seat) pairs.
RECURSIVE PairsProfit(_)
PairsProfit(S) ==
    IF S = {} THEN 0
    ELSE LET pr == CHOOSE x \in S : TRUE
         IN  Batch[pr[1]].payoffs[pr[2]] + PairsProfit(S \ {pr})

\* C32: the per-card statistics group by the card a seat held, whoever held
\* it: for a batch of N records hands[c] counts the (hand, seat) pairs with
\* card c, won[c] those of them with a positive payoff, profit[c] sums their
\* payoffs; over the three cards hands sums to 2N, won to N and profit to 0.
C32_CardStatistics ==
    pc = "analyzed" =>
        /\ \A c \in Range(CARDS) :
            /\ CardStat(c, "hands") = Cardinality(Pairs(c))
            /\ CardStat(c, "won") =
                Cardinality({pr \in Pairs(c) : Batch[pr[1]].payoffs[pr[2]] > 0})
            /\ CardStat(c, "profit") = PairsProfit(Pairs(c))
        /\ CardStat("J", "hands") + CardStat("Q", "hands") + CardStat("K", "hands")
                = 2 * Len(Batch)
        /\ CardStat("J", "won") + CardStat("Q", "won") + CardStat("K", "won") = Len(Batch)
        /\ CardStat("J", "profit") + CardStat("Q", "profit") + CardStat("K", "profit") = 0

C32_Witness ==
    /\ pc = "analyzed"
    /\ Len(Batch) = 2
    /\ CardStat("K", "hands") = 2
    /\ CardStat("K", "won") = 2
    /\ CardStat("K", "profit") = 3
    /\ CardStat("J", "hands") = 1
    /\ CardStat("Q", "profit") = -1

\* ------------------------------------------------ claims on the hand records
\* The agent (1 or 2) the runner seats at seat p in hand h.
AgentAt(p, h) == CHOOSE i \in {1, 2} : SeatOf(i, h) = p

\* C33: every hand record is self-consistent: its action events list the seats
\* 0, 1 (then 0 for a third action), their actions in order are the final
\* betting_history, each event carries the name of the agent seated at its seat
\* in this hand and that seat's card, final_pot is 2 plus the number of BET and
\* CALL events, and both seats appear in the events.
C33_RecordConsistent ==
    \A k \in DOMAIN log :
        LET rec == log[k] IN
        /\ Len(rec.actions) = Len(rec.betting_history)
        /\ \A j \in DOMAIN rec.actions :
            /\ rec.actions[j].position = (j - 1) % 2
            /\ rec.actions[j].action = rec.betting_history[j]
            /\ rec.actions[j].agent = agent_names[AgentAt(rec.actions[j].position, rec.hand_id)]
            /\ rec.actions[j].card = rec.cards[rec.actions[j].position]
        /\ rec.final_pot =
            2 + Cardinality({j \in DOMAIN rec.actions : rec.actions[j].action \in {"BET", "CALL"}})
        /\ {rec.actions[j].position : j \in DOMAIN rec.actions} = Seats
        /\ rec.cards[0] # rec.cards[1]

C33_Witness ==
    /\ Len(log) = 2
    /\ DistinctNames
    /\ log[2].betting_history = <<"CHECK", "BET", "CALL">>
    /\ log[2].actions[3] = [position |-> 0, agent |-> agent_names[2], action |-> "CALL", card |-> "Q"]
    /\ log[2].final_pot = 4

\* C35: when both agents return only legal actions, every hand reaches a
\* terminal state after 2 or 3 actions, and the complete betting histories are
\* CHECK-CHECK, BET-FOLD, BET-CALL, CHECK-BET-FOLD and CHECK-BET-CALL.
C35_HandsTerminate ==
    pc = "while" =>
        /\ state.betting_history = [j \in DOMAIN actions_taken |-> actions_taken[j].action]
        /\ Len(actions_taken) <= 3
        /\ state.is_terminal <=> state.betting_history \in TerminalHistories
        /\ state.is_terminal => Len(actions_taken) \in {2, 3}
        /\ ~state.is_terminal =>
            /\ Len(actions_taken) < 3
            /\ \E h \in TerminalHistories :
                /\ Len(h) > Len(actions_taken)
                /\ SubSeq(h, 1, Len(actions_taken)) = state.betting_history
            /\ \A a \in Range(get_legal_actions(state).value) :
                \E h \in TerminalHistories :
                    /\ Len(h) > Len(actions_taken)
                    /\ SubSeq(h, 1, Len(actions_taken) + 1) = Append(state.betting_history, a)

C35_Witness ==
    /\ pc = "while"
    /\ state.is_terminal
    /\ Len(actions_taken) = 3
    /\ state.betting_history = <<"CHECK", "BET", "FOLD">>

\* The tally of action a over the logged hands, for the agent named n.
Tally(n, a) ==
    Cardinality({pr \in (DOMAIN log) \X (1..3) :
                    /\ pr[2] \in DOMAIN log[pr[1]].actions
                    /\ log[pr[1]].actions[pr[2]].agent = n
                    /\ log[pr[1]].actions[pr[2]].action = a})

\* C37: when an agent returns an action that is not legal, the engine's error
\* leaves play_hand and run_tournament: no record is logged and no profit or
\* action tally is updated for that hand, while the other seat's agent has
\* already been told the illegal action by observe_opponent_action.
C37_IllegalActionPropagates ==
    (pc = "raised" /\ raised = "ValueError") =>
        LET last == actions_taken[Len(actions_taken)]
            told == events[Len(events) - 1]
            applied == events[Len(events)]
        IN  /\ last.action \notin Range(get_legal_actions(state).value)
            /\ Len(log) = hand_num
            /\ \A k \in DOMAIN log : log[k].hand_id < hand_num
            /\ \A n \in DOMAIN profits : \A a \in Actions : action_counts[n][a] = Tally(n, a)
            /\ DistinctNames =>
                \A i \in {1, 2} : profits[agent_names[i]] = IdentityProfit(i, Len(log))
            /\ profits[agent_names[1]] + profits[agent_names[2]] = 0
            /\ applied.op = "apply_action"
            /\ applied.action = last.action
            /\ told.op = "observe_opponent_action"
            /\ told.action = last.action
            /\ told.seat = 1 - last.position
            /\ told.agent = agents[1 - last.position]
            /\ told.state = state
            /\ ~ENABLED TNext

C37_Witness ==
    /\ pc = "raised"
    /\ raised = "ValueError"
    /\ hand_num = 1
    /\ Len(log) = 1
    /\ state.betting_history = <<"CHECK">>
    /\ actions_taken[2].action = "FOLD"
    /\ events[Len(events) - 1].op = "observe_opponent_action"
    /\ events[Len(events) - 1].action = "FOLD"

\* C38: when both agents passed to run_tournament carry the same name, the
\* profit table has one entry, which is 0 after every completed hand, and the
\* action tallies of the two agents are merged into one entry.
C38_SameNameMerged ==
    (pc # "idle" /\ ~DistinctNames) =>
        LET n == agent_names[1] IN
        /\ DOMAIN profits = {n}
        /\ profits[n] = 0
        /\ DOMAIN action_counts = {n}
        /\ \A a \in Actions :
            action_counts[n][a] =
                Cardinality({pr \in (DOMAIN log) \X (1..3) :
                                /\ pr[2] \in DOMAIN log[pr[1]].actions
                                /\ log[pr[1]].actions[pr[2]].action = a})

C38_Witness ==
    /\ pc = "done"
    /\ ~DistinctNames
    /\ Len(log) = 2
    /\ profits[agent_names[1]] = 0
    /\ action_counts[agent_names[1]]["BET"] = 2
    /\ action_counts[agent_names[1]]["CALL"] = 1
    /\ action_counts[agent_names[1]]["FOLD"] = 1

\* The tally of action a summed over the entries of the action table.
RECURSIVE TallySum(_, _)
TallySum(S, a) ==
    IF S = {} THEN 0
    ELSE LET n == CHOOSE x \in S : TRUE
         IN  action_counts[n][a] + TallySum(S \ {n}, a)

\* The number of tallied actions.
TotalTallied ==
    TallySum(DOMAIN action_counts, "CHECK") + TallySum(DOMAIN action_counts, "BET")
        + TallySum(DOMAIN action_counts, "CALL") + TallySum(DOMAIN action_counts, "FOLD")

\* C39: after any number of completed hands the action tallies summed over the
\* agents satisfy BET = CALL + FOLD, and every completed hand adds 2 or 3 to
\* the number of tallied actions.
C39_TallyBalance ==
    pc # "idle" =>
        /\ TallySum(DOMAIN action_counts, "BET")
            = TallySum(DOMAIN action_counts, "CALL") + TallySum(DOMAIN action_counts, "FOLD")
        /\ 2 * Len(log) <= TotalTallied
        /\ TotalTallied <= 3 * Len(log)
        /\ TotalTallied = SeqSum([k \in DOMAIN log |-> Len(log[k].actions)])
        /\ \A k \in DOMAIN log : Len(log[k].actions) \in {2, 3}

C39_Witness ==
    /\ pc = "for"
    /\ Len(log) = 2
    /\ TotalTallied = 5
    /\ TallySum(DOMAIN action_counts, "BET") = 2
    /\ TallySum(DOMAIN action_counts, "CALL") = 1
    /\ TallySum(DOMAIN action_counts, "FOLD") = 1

\* ------------------------------------------------ claims on the payoff sizes
\* The chips a seat put into the pot: the ante and one per BET or CALL it made
\* (seat 0 makes the odd-numbered actions of a history).
Committed(s, p) ==
    ANTE + Cardinality({j \in DOMAIN s.betting_history :
                            /\ (j - 1) % 2 = p
                            /\ s.betting_history[j] \in {"BET", "CALL"}})

\* C36: in every terminal state the loser loses exactly the chips it put in
\* (ante plus its own bet or call): the payoffs are +2/-2 exactly when the hand
\* ended with CALL and +1/-1 when it ended with FOLD or CHECK-CHECK; a folder
\* loses only the ante and no payoff is 0.
C36_LoserLosesCommitted ==
    (state # None /\ state.is_terminal) =>
        LET h == state.betting_history
            last == h[Len(h)]
            loser == CHOOSE p \in Seats : state.payoffs[p] < 0
        IN  /\ \E p \in Seats : state.payoffs[p] < 0
            /\ state.payoffs[loser] = -Committed(state, loser)
            /\ state.payoffs[1 - loser] = Committed(state, loser)
            /\ \A p \in Seats : state.payoffs[p] # 0
            /\ last = "CALL" <=> {state.payoffs[0], state.payoffs[1]} = {2, -2}
            /\ last \in {"FOLD", "CHECK"} <=> {state.payoffs[0], state.payoffs[1]} = {1, -1}
            /\ last = "FOLD" => state.payoffs[(Len(h) - 1) % 2] = -ANTE

C36_Witness ==
    /\ state # None
    /\ state.is_terminal
    /\ state.betting_history = <<"CHECK", "BET", "FOLD">>
    /\ state.payoffs[0] = -1
    /\ state.payoffs[1] = 1
    /\ state.pot = 3

\* ------------------------------------------------- claims on recent_history
\* The smaller of two numbers.
Min(a, b) == IF a < b THEN a ELSE b

\* C34: after any sequence of observe_opponent_action and reset calls on a
\* HumanLikeAgent, recent_history is the last min(k, 20) actions observed since
\* the last reset (or construction), in order, k being their number; it never
\* holds more than 20 actions and is empty right after reset.
C34_RecentHistory ==
    LET k == Len(observed) IN
    /\ Len(recent_history) = Min(k, 20)
    /\ Len(recent_history) <= 20
    /\ recent_history = SubSeq(observed, k - Min(k, 20) + 1, k)
    /\ call = "reset" => recent_history = <<>>

C34_Witness ==
    /\ Len(observed) = 22
    /\ Len(recent_history) = 20
    /\ observed[1] = "CHECK"
    /\ observed[2] = "BET"
    /\ observed[3] = "FOLD"
    /\ recent_history[1] = "FOLD"
    /\ recent_history[20] = "CHECK"

\* ------------------------------------------- claims on two equilibrium agents
\* Seat p took action a in the logged hand rec.
Took(rec, p, a) ==
    \E j \in DOMAIN rec.actions : rec.actions[j].position = p /\ rec.actions[j].action = a

\* C40: with a GTOAgent at both seats, in every hand the holder of K never
\* folds and ends with a positive payoff, and the holder of J never calls and
\* ends with a negative payoff, for every deal and every outcome of the mixed
\* decision of J after a check.
C40_KingWinsJackLoses ==
    \A k \in DOMAIN log : \A p \in Seats :
        /\ log[k].cards[p] = "K" => ~Took(log[k], p, "FOLD") /\ log[k].payoffs[p] > 0
        /\ log[k].cards[p] = "J" => ~Took(log[k], p, "CALL") /\ log[k].payoffs[p] < 0

\* J bluffs after Q's check and is called; K bets and is called by Q.
C40_Witness ==
    /\ Len(log) = 2
    /\ log[1].cards = [p \in Seats |-> IF p = 0 THEN "Q" ELSE "J"]
    /\ log[1].betting_history = <<"CHECK", "BET", "CALL">>
    /\ log[1].payoffs[1] = -2
    /\ log[2].cards = [p \in Seats |-> IF p = 0 THEN "K" ELSE "Q"]
    /\ log[2].betting_history = <<"BET", "CALL">>
    /\ log[2].payoffs[0] = 2

====
